---- MODULE Spec2Model ----
(***************************************************************************)
(* Model of license_test_runner.py: the fixture registry, the scan loop    *)
(* of run_license_detection_tests, analyze_license_patterns, the summary   *)
(* and main's report/JSON writing, over one or more runs of the script in  *)
(* the same working directory.                                             *)
(*                                                                         *)
(* Python str values that are only compared as wholes (module names,       *)
(* license identifiers) are TLA+ strings; str values that are searched     *)
(* for substrings are sequences of one-character strings.                  *)
(***************************************************************************)
EXTENDS Integers, Sequences, FiniteSets, TLC

(***************************************************************************)
(* Bounds                                                                  *)
(***************************************************************************)
\* this many registry modules may deviate from "imports cleanly and has the
\* ordinary docstring" in an environment
MaxSuspects == 2
\* number of distinct str-hash seeds (iteration orders of a set of str)
NumHashSeeds == 2
\* number of times the script is run in the same working directory
MaxRuns == 2
\* analyze_license_patterns is applied to texts of at most this many fragments
MaxWords == 3

(***************************************************************************)
(* discover_license_test_modules: the dict literal, in insertion order     *)
(***************************************************************************)
discover_license_test_modules ==
  << [name |-> "apache_2_0", module |-> "src.data.apache_utils",
      expected_licenses |-> <<"Apache-2.0">>,
      license_type |-> "permissive", commercial_use |-> TRUE],
     [name |-> "gpl_v2", module |-> "src.scraper.gpl2_tools",
      expected_licenses |-> <<"GPL-2.0">>,
      license_type |-> "copyleft", commercial_use |-> TRUE],
     [name |-> "agpl_v3", module |-> "src.data.agpl3_database",
      expected_licenses |-> <<"AGPL-3.0">>,
      license_type |-> "copyleft", commercial_use |-> TRUE,
      network_copyleft |-> TRUE],
     [name |-> "mpl_2_0", module |-> "src.config.mpl2_config",
      expected_licenses |-> <<"MPL-2.0">>,
      license_type |-> "weak_copyleft", commercial_use |-> TRUE],
     [name |-> "epl_2_0", module |-> "src.data.epl2_analytics",
      expected_licenses |-> <<"EPL-2.0">>,
      license_type |-> "weak_copyleft", commercial_use |-> TRUE],
     [name |-> "creative_commons", module |-> "src.data.cc_content",
      expected_licenses |-> <<"CC-BY-4.0", "CC-BY-SA-4.0", "CC-BY-NC-4.0">>,
      license_type |-> "creative_commons",
      commercial_use |-> "depends_on_variant"],
     [name |-> "proprietary", module |-> "src.scraper.proprietary_tools",
      expected_licenses |-> <<"Proprietary", "Commercial">>,
      license_type |-> "proprietary", commercial_use |-> FALSE],
     [name |-> "mixed_licenses", module |-> "src.mixed_licenses",
      expected_licenses |->
        <<"MIT", "BSD-3-Clause", "GPL-3.0", "Proprietary", "Multiple">>,
      license_type |-> "mixed", commercial_use |-> "complex"],
     [name |-> "existing_lgpl", module |-> "src.data.utils",
      expected_licenses |-> <<"LGPL-2.1">>,
      license_type |-> "copyleft", commercial_use |-> TRUE],
     [name |-> "existing_gpl3", module |-> "src.scraper.web_client",
      expected_licenses |-> <<"GPL-3.0">>,
      license_type |-> "copyleft", commercial_use |-> TRUE],
     [name |-> "dual_license_crypto",
      module |-> "src.security.dual_license_crypto",
      expected_licenses |->
        <<"GPL-3.0", "Commercial", "MIT", "Apache-2.0", "BSD-3-Clause">>,
      license_type |-> "dual_license", commercial_use |-> "conditional"],
     [name |-> "international_licenses",
      module |-> "src.international.global_licenses",
      expected_licenses |->
        <<"EUPL-1.2", "Japanese-Custom", "Open-Government-Canada",
          "AFL-3.0", "CC0-1.0", "Buddhist">>,
      license_type |-> "international", commercial_use |-> "varies"],
     [name |-> "license_violations",
      module |-> "src.violations.license_violations",
      expected_licenses |->
        <<"GPL-3.0-VIOLATION", "MIT-COPYRIGHT-VIOLATION",
          "PATENT-INFRINGEMENT", "AGPL-NETWORK-VIOLATION">>,
      license_type |-> "violations", commercial_use |-> "illegal"],
     [name |-> "complex_dependencies",
      module |-> "src.advanced.complex_dependencies",
      expected_licenses |->
        <<"MIT", "Apache-2.0", "BSD-3-Clause", "GPL-2.0", "GPL-3.0",
          "LGPL-2.1", "AGPL-3.0", "MPL-2.0", "Proprietary">>,
      license_type |-> "dependency_tree", commercial_use |-> "incompatible"],
     [name |-> "enhanced_settings", module |-> "src.config.settings",
      expected_licenses |-> <<"MIT", "BSD-3-Clause", "PSFL", "Apache-2.0">>,
      license_type |-> "multi_dependency", commercial_use |-> TRUE],
     [name |-> "pulp_inspired_gpl", module |-> "src.testing.pulp_inspired_gpl",
      expected_licenses |-> <<"GPL-3.0">>,
      license_type |-> "copyleft", commercial_use |-> TRUE,
      inspired_by |-> "pulp-smash project patterns"],
     [name |-> "pulp_patterns_gpl", module |-> "src.testing.pulp_patterns_gpl",
      expected_licenses |-> <<"GPL-3.0">>,
      license_type |-> "copyleft", commercial_use |-> TRUE,
      inspired_by |-> "pulp-smash architectural patterns"] >>

\* set of the elements of a sequence
Range(s) == {s[i] : i \in DOMAIN s}

\* the module paths the registry names
ModulePaths == {discover_license_test_modules[i].module :
                  i \in DOMAIN discover_license_test_modules}

(***************************************************************************)
(* Text: str.lower() and the `in` operator on str                          *)
(***************************************************************************)
\* the cased characters that occur, each with its lower-case form
ToLower ==
  [A |-> "a", B |-> "b", C |-> "c", D |-> "d", E |-> "e", F |-> "f", G
   |-> "g", H |-> "h", I |-> "i", J |-> "j", K |-> "k", L |-> "l", M |->
   "m", N |-> "n", O |-> "o", P |-> "p", Q |-> "q", R |-> "r", S |-> "s",
   T |-> "t", U |-> "u", V |-> "v", W |-> "w", X |-> "x", Y |-> "y", Z
   |-> "z"]

\* str.lower() on one character: cased letters map to lower case, every
\* other character (digits, punctuation, the copyright sign) is unchanged
LowerChar(c) == IF c \in DOMAIN ToLower THEN ToLower[c] ELSE c

\* str.lower(); the result is built as a tuple
Lower(s) == [i \in DOMAIN s |-> LowerChar(s[i])] \o <<>>

\* `needle in haystack` for two str
Contains(haystack, needle) ==
  \E off \in 0..(Len(haystack) - Len(needle)) :
     \A j \in 1..Len(needle) : haystack[off + j] = needle[j]

license_indicators ==
  << <<"M","I","T"," ","L","i","c","e","n","s","e">>,
     <<"A","p","a","c","h","e"," ","L","i","c","e","n","s","e">>,
     <<"G","P","L">>,
     <<"L","G","P","L">>,
     <<"A","G","P","L">>,
     <<"M","o","z","i","l","l","a"," ","P","u","b","l","i","c"," ","L","i","c","e","n","s","e">>,
     <<"M","P","L">>,
     <<"E","c","l","i","p","s","e"," ","P","u","b","l","i","c"," ","L","i","c","e","n","s","e">>,
     <<"E","P","L">>,
     <<"C","r","e","a","t","i","v","e"," ","C","o","m","m","o","n","s">>,
     <<"C","C"," ","B","Y">>,
     <<"C","C"," ","B","Y","-","S","A">>,
     <<"C","C"," ","B","Y","-","N","C">>,
     <<"B","S","D"," ","L","i","c","e","n","s","e">>,
     <<"I","S","C"," ","L","i","c","e","n","s","e">>,
     <<"U","n","l","i","c","e","n","s","e">>,
     <<"W","T","F","P","L">>,
     <<"P","r","o","p","r","i","e","t","a","r","y">>,
     <<"C","o","m","m","e","r","c","i","a","l"," ","L","i","c","e","n","s","e">>,
     <<"A","l","l"," ","r","i","g","h","t","s"," ","r","e","s","e","r","v","e","d">>,
     <<"G","N","U"," ","G","e","n","e","r","a","l"," ","P","u","b","l","i","c"," ","L","i","c","e","n","s","e">>,
     <<"G","N","U"," ","L","e","s","s","e","r"," ","G","e","n","e","r","a","l"," ","P","u","b","l","i","c"," ","L","i","c","e","n","s","e">>,
     <<"G","N","U"," ","A","f","f","e","r","o"," ","G","e","n","e","r","a","l"," ","P","u","b","l","i","c"," ","L","i","c","e","n","s","e">>,
     <<"S","u","b","j","e","c","t"," ","t","o"," ","t","h","e"," ","t","e","r","m","s">>,
     <<"P","e","r","m","i","s","s","i","o","n"," ","i","s"," ","h","e","r","e","b","y"," ","g","r","a","n","t","e","d">>,
     <<"T","h","i","s"," ","p","r","o","g","r","a","m"," ","i","s"," ","f","r","e","e"," ","s","o","f","t","w","a","r","e">>,
     <<"C","o","p","y","r","i","g","h","t"," ","(","c",")">>,
     <<"COPYRIGHT_SIGN">>,
     <<"L","i","c","e","n","s","e","d"," ","u","n","d","e","r">>,
     <<"S","P","D","X","-","L","i","c","e","n","s","e","-","I","d","e","n","t","i","f","i","e","r">> >>

\* variant of ScanIndicator: the indicator is compared as written
ScanIndicator_CaseSensitive(found_patterns, text_lower, indicator) ==
  IF Contains(text_lower, indicator)
    THEN Append(found_patterns, indicator)
    ELSE found_patterns

\* one iteration of the `for indicator in license_indicators` loop
ScanIndicator(found_patterns, text_lower, indicator) ==
  IF Contains(text_lower, Lower(indicator))
    THEN Append(found_patterns, indicator)
    ELSE found_patterns

RECURSIVE ScanIndicators(_, _, _)
\* the loop over license_indicators[i..], accumulating found_patterns
ScanIndicators(found_patterns, text_lower, i) ==
  IF i > Len(license_indicators)
    THEN found_patterns
    ELSE ScanIndicators(
           ScanIndicator(found_patterns, text_lower, license_indicators[i]),
           text_lower, i + 1)

analyze_license_patterns(txt) == ScanIndicators(<<>>, Lower(txt), 1)

(***************************************************************************)
(* The environment of a run: what importing each registry module does      *)
(***************************************************************************)
\* docstrings: an excerpt of the docstring of src/scraper/web_client.py and
\* one of src/scraper/parser.py
DocOrdinary ==
  <<"G","P","L","-","3",".","0"," ","l","i","c","e","n","s","e","d"," ","c","o","d","e">>
DocOther ==
  <<"(","M","I","T"," ","l","i","c","e","n","s","e",")",".">>

\* what importlib.import_module does for a module of each kind: the class of
\* the exception it raises ("none" when it returns) and the __doc__ of the
\* module it returns
ImportOutcome(kind) ==
  CASE kind = "loaded" ->
         [raises |-> "none", doc |-> [type |-> "str", value |-> DocOrdinary]]
    [] kind = "other_doc" ->
         [raises |-> "none", doc |-> [type |-> "str", value |-> DocOther]]
    [] kind = "no_doc" ->
         [raises |-> "none", doc |-> [type |-> "None"]]
    [] kind = "doc_not_str" ->
         [raises |-> "none", doc |-> [type |-> "int"]]
    [] kind = "missing_dependency" ->
         [raises |-> "ModuleNotFoundError", doc |-> [type |-> "None"]]
    [] kind = "broken_source" ->
         [raises |-> "SyntaxError", doc |-> [type |-> "None"]]

ModuleKinds ==
  {"loaded", "other_doc", "no_doc", "doc_not_str",
   "missing_dependency", "broken_source"}

\* the registry modules whose import may deviate, most likely first: the one
\* with third-party imports, the one with three identifiers of its own, the
\* first entry, the last entry
Suspects ==
  <<"src.config.settings", "src.data.cc_content", "src.data.apache_utils",
    "src.testing.pulp_patterns_gpl">>

SuspectModules ==
  {Suspects[i] : i \in {k \in DOMAIN Suspects : k <= MaxSuspects}}

\* the environments considered: each suspect module is of any kind, every
\* other module imports cleanly and has the ordinary docstring
Environments ==
  {[m \in ModulePaths |-> IF m \in SuspectModules THEN f[m] ELSE "loaded"] :
     f \in [SuspectModules -> ModuleKinds]}

\* the classes an exception class derives from (itself included)
ExceptionBases(cls) ==
  CASE cls = "ModuleNotFoundError" ->
         {"ModuleNotFoundError", "ImportError", "Exception", "BaseException"}
    [] cls = "ImportError" -> {"ImportError", "Exception", "BaseException"}
    [] cls = "SyntaxError" -> {"SyntaxError", "Exception", "BaseException"}
    [] cls = "AttributeError" ->
         {"AttributeError", "Exception", "BaseException"}
    [] cls = "TypeError" -> {"TypeError", "Exception", "BaseException"}
    [] cls = "NameError" -> {"NameError", "Exception", "BaseException"}

\* str(e) of the exception raised
ExceptionMessage(cls, module_path) ==
  CASE cls = "ModuleNotFoundError" -> "No module named '" \o module_path \o "'"
    [] cls = "SyntaxError" -> "invalid syntax"
    [] cls = "AttributeError" -> "'int' object has no attribute 'lower'"
    [] OTHER -> cls

\* bool(module.__doc__)
Truthy(doc) ==
  CASE doc.type = "None" -> FALSE
    [] doc.type = "str" -> Len(doc.value) > 0
    [] doc.type = "int" -> TRUE

(***************************************************************************)
(* State                                                                   *)
(***************************************************************************)
VARIABLES
  environment,    \* module path -> kind: what importing it does (all runs)
  hash_seed,      \* str-hash seed of the running interpreter; 0 until a set
                  \* of str is first iterated
  run,            \* number of the current run of the script
  pc,             \* position of the run in main / run_license_detection_tests
  iter,           \* index of the registry entry the scan loop is at
  test_result,    \* the per-module record being built by the loop body
  test_results,   \* the accumulator dict
  report,         \* the report string held by main
  files,          \* the two output files in the working directory
  written,        \* names of the files written by the current run, in order
  exit_status,    \* exit status of the process once it has ended
  text,           \* argument of a direct call of analyze_license_patterns
  found_patterns, \* its return value
  apc             \* "call" before that call, "returned" after

\* one call of GPLv2NetworkScanner.gpl2_port_scan
VARIABLES
  network,        \* what the scanned host and the socket layer answer
  ports,          \* the ports argument
  spc,            \* where the calling thread is inside gpl2_port_scan
  port_idx,       \* number of ports the for loop has consumed
  threads,        \* the local list of Thread objects
  join_idx,       \* number of elements a join loop has consumed
  thread_state,   \* state of every Thread object created so far
  port_results    \* the dict results shared by the scan threads

\* concurrent calls of AGPLv3DatabaseManager.agpl3_get_connection
VARIABLES
  lock,           \* self.lock: Unlocked, or the caller holding it
  connections,    \* self.connections: thread id -> connection
  created,        \* per connection object made by sqlite3.connect: the
                  \* thread id it was made for and its table setups
  cpc,            \* where each caller is inside agpl3_get_connection
  calls,          \* number of calls begun so far
  thread_id,      \* each caller's parameter / local thread_id
  conn,           \* each caller's local conn
  returned        \* the <<thread id, connection>> pairs returned so far

\* one call of HTTPDownloader.download_with_retries
VARIABLES
  retries,        \* the retries argument
  attempt,        \* the loop variable of "for attempt in range(retries + 1)"
  dpc,            \* where the call is: "loop", "returned" or "raised"
  downloads,      \* outcome of every _perform_download call made so far
  download_result \* the value download_with_retries returned

downloadVars == <<retries, attempt, dpc, downloads, download_result>>

\* one call of EPL2DataMiningEngine.epl2_clustering_analysis
VARIABLES
  data_points,    \* the data_points argument (one coordinate per point)
  num_clusters,   \* the k argument
  centroids,      \* the local list of centroids
  assignments,    \* the local list of assignments
  iteration,      \* the loop variable of "for iteration in range(100)"
  kpc,            \* where the call is inside epl2_clustering_analysis
  cluster_result  \* the dict the call returned

clusterVars == <<data_points, num_clusters, centroids, assignments, iteration,
                 kpc, cluster_result>>

\* one MPL2ConfigurationManager and its config directory
VARIABLES
  disk,           \* the files of the config directory, by name and format
  config_cache,   \* self.config_cache
  clock,          \* the value time.time() returns next
  config_op,      \* the last method called, with its arguments
  config_return   \* the value that call returned

configVars == <<disk, config_cache, clock, config_op, config_return>>

\* one call of CCContentProcessor.validate_cc_compliance
VARIABLES
  cc_content,     \* the content argument
  usage_context,  \* the usage_context argument
  compliance,     \* the dict the call returned
  vpc             \* "call" before the call, "returned" after

complianceVars == <<cc_content, usage_context, compliance, vpc>>

\* one proprietary_encrypt call followed by proprietary_decrypt on one engine
VARIABLES
  plain_data,     \* the data argument, as code points
  crypt_key,      \* the key argument of both calls
  encrypted_data, \* what proprietary_encrypt returned
  decrypted_data, \* what proprietary_decrypt returned
  epc             \* "encrypt" before the first call, then "decrypt", "done"

cryptVars == <<plain_data, crypt_key, encrypted_data, decrypted_data, epc>>

scanVars == <<network, ports, spc, port_idx, threads, join_idx, thread_state,
              port_results>>
connVars == <<lock, connections, created, cpc, calls, thread_id, conn, returned>>

runVars == <<environment, hash_seed, run, pc, iter, test_result, test_results,
             report, files, written, exit_status>>
callVars == <<text, found_patterns, apc>>

\* the variables of the library calls
libVars == <<downloadVars, clusterVars, configVars, complianceVars, cryptVars>>
\* what a call modelled by SpecDownload leaves alone
exceptDownload == <<runVars, callVars, scanVars, connVars, clusterVars, configVars, complianceVars, cryptVars>>
\* what a call modelled by SpecCluster leaves alone
exceptCluster == <<runVars, callVars, scanVars, connVars, downloadVars, configVars, complianceVars, cryptVars>>
\* what a call modelled by SpecConfig leaves alone
exceptConfig == <<runVars, callVars, scanVars, connVars, downloadVars, clusterVars, complianceVars, cryptVars>>
\* what a call modelled by SpecCompliance leaves alone
exceptCompliance == <<runVars, callVars, scanVars, connVars, downloadVars, clusterVars, configVars, cryptVars>>
\* what a call modelled by SpecCrypt leaves alone
exceptCrypt == <<runVars, callVars, scanVars, connVars, downloadVars, clusterVars, configVars, complianceVars>>

vars == <<environment, hash_seed, run, pc, iter, test_result, test_results,
          report, files, written, exit_status, text, found_patterns, apc,
          scanVars, connVars, libVars>>

\* what the steps of main leave alone
otherVars == <<callVars, scanVars, connVars, libVars>>

\* a file: absent, just truncated by open(name, 'w'), or holding data
Absent == [exists |-> FALSE]
Truncated == [exists |-> TRUE, empty |-> TRUE]
Holding(data) == [exists |-> TRUE, empty |-> FALSE, data |-> data]

\* a Python name that is not bound yet
NoValue == [defined |-> FALSE]
\* exit_status while the process is still running
NotExited == -1

results_file == "license_test_results.json"
report_file == "SCANOSS_LICENSE_TEST_REPORT.md"

\* no call of gpl2_port_scan is in progress
ScanIdle ==
  /\ network = "none"
  /\ ports = <<>>
  /\ spc = "idle"
  /\ port_idx = 0
  /\ threads = <<>>
  /\ join_idx = 0
  /\ thread_state = <<>>
  /\ port_results = <<>>

\* no AGPLv3DatabaseManager exists
ConnIdle ==
  /\ lock = 0
  /\ connections = <<>>
  /\ created = <<>>
  /\ cpc = <<>>
  /\ calls = 0
  /\ thread_id = <<>>
  /\ conn = <<>>
  /\ returned = {}

\* no call of download_with_retries is in progress
DownloadIdle ==
  /\ retries = 0
  /\ attempt = 0
  /\ dpc = "idle"
  /\ downloads = <<>>
  /\ download_result = NoValue

\* no call of epl2_clustering_analysis is in progress
ClusterIdle ==
  /\ data_points = <<>>
  /\ num_clusters = 0
  /\ centroids = <<>>
  /\ assignments = <<>>
  /\ iteration = 0
  /\ kpc = "idle"
  /\ cluster_result = NoValue

\* no MPL2ConfigurationManager exists
ConfigIdle ==
  /\ disk = <<>>
  /\ config_cache = <<>>
  /\ clock = 0
  /\ config_op = NoValue
  /\ config_return = NoValue

\* no call of validate_cc_compliance is in progress
ComplianceIdle ==
  /\ cc_content = NoValue
  /\ usage_context = <<>>
  /\ compliance = NoValue
  /\ vpc = "idle"

\* no ProprietaryEncryptionEngine call is in progress
CryptIdle ==
  /\ plain_data = <<>>
  /\ crypt_key = ""
  /\ encrypted_data = <<>>
  /\ decrypted_data = <<>>
  /\ epc = "idle"

\* no library call is in progress
LibIdle ==
  /\ DownloadIdle
  /\ ClusterIdle
  /\ ConfigIdle
  /\ ComplianceIdle
  /\ CryptIdle

(***************************************************************************)
(* Sets of str: iteration order and str()                                  *)
(***************************************************************************)
\* the str values that occur as license identifiers, with their characters
LicenseIds ==
  << [id |-> "Apache-2.0",
      chars |-> <<"A","p","a","c","h","e","-","2",".","0">>],
     [id |-> "GPL-2.0",
      chars |-> <<"G","P","L","-","2",".","0">>],
     [id |-> "AGPL-3.0",
      chars |-> <<"A","G","P","L","-","3",".","0">>],
     [id |-> "MPL-2.0",
      chars |-> <<"M","P","L","-","2",".","0">>],
     [id |-> "EPL-2.0",
      chars |-> <<"E","P","L","-","2",".","0">>],
     [id |-> "CC-BY-4.0",
      chars |-> <<"C","C","-","B","Y","-","4",".","0">>],
     [id |-> "CC-BY-SA-4.0",
      chars |-> <<"C","C","-","B","Y","-","S","A","-","4",".","0">>],
     [id |-> "CC-BY-NC-4.0",
      chars |-> <<"C","C","-","B","Y","-","N","C","-","4",".","0">>],
     [id |-> "Proprietary",
      chars |-> <<"P","r","o","p","r","i","e","t","a","r","y">>],
     [id |-> "Commercial",
      chars |-> <<"C","o","m","m","e","r","c","i","a","l">>],
     [id |-> "MIT",
      chars |-> <<"M","I","T">>],
     [id |-> "BSD-3-Clause",
      chars |-> <<"B","S","D","-","3","-","C","l","a","u","s","e">>],
     [id |-> "GPL-3.0",
      chars |-> <<"G","P","L","-","3",".","0">>],
     [id |-> "Multiple",
      chars |-> <<"M","u","l","t","i","p","l","e">>],
     [id |-> "LGPL-2.1",
      chars |-> <<"L","G","P","L","-","2",".","1">>],
     [id |-> "EUPL-1.2",
      chars |-> <<"E","U","P","L","-","1",".","2">>],
     [id |-> "Japanese-Custom",
      chars |-> <<"J","a","p","a","n","e","s","e","-","C","u","s","t","o","m">>],
     [id |-> "Open-Government-Canada",
      chars |-> <<"O","p","e","n","-","G","o","v","e","r","n","m","e","n","t","-","C","a","n","a","d","a">>],
     [id |-> "AFL-3.0",
      chars |-> <<"A","F","L","-","3",".","0">>],
     [id |-> "CC0-1.0",
      chars |-> <<"C","C","0","-","1",".","0">>],
     [id |-> "Buddhist",
      chars |-> <<"B","u","d","d","h","i","s","t">>],
     [id |-> "GPL-3.0-VIOLATION",
      chars |-> <<"G","P","L","-","3",".","0","-","V","I","O","L","A","T","I","O","N">>],
     [id |-> "MIT-COPYRIGHT-VIOLATION",
      chars |-> <<"M","I","T","-","C","O","P","Y","R","I","G","H","T","-","V","I","O","L","A","T","I","O","N">>],
     [id |-> "PATENT-INFRINGEMENT",
      chars |-> <<"P","A","T","E","N","T","-","I","N","F","R","I","N","G","E","M","E","N","T">>],
     [id |-> "AGPL-NETWORK-VIOLATION",
      chars |-> <<"A","G","P","L","-","N","E","T","W","O","R","K","-","V","I","O","L","A","T","I","O","N">>],
     [id |-> "PSFL",
      chars |-> <<"P","S","F","L">>] >>

CharsOf(id) ==
  LicenseIds[CHOOSE i \in DOMAIN LicenseIds : LicenseIds[i].id = id].chars

\* s rotated to the left by k positions
Rotate(s, k) ==
  IF Len(s) = 0 THEN s
  ELSE [i \in 1..Len(s) |-> s[((i - 1 + k) % Len(s)) + 1]] \o <<>>

\* the order in which iterating a set of str yields its elements; it is fixed
\* by the interpreter's hash seed and differs between seeds
SetIterationOrder(S, seed) ==
  LET member(entry) == entry.id \in S
      present == SelectSeq(LicenseIds, member)
  IN Rotate([i \in DOMAIN present |-> present[i].id] \o <<>>, seed - 1)

RECURSIVE JoinRepr(_, _)
\* ", ".join(repr(x) for x in items[i..])
JoinRepr(items, i) ==
  IF i > Len(items) THEN <<>>
  ELSE (IF i > 1 THEN <<",", " ">> ELSE <<>>)
       \o <<"'">> \o CharsOf(items[i]) \o <<"'">>
       \o JoinRepr(items, i + 1)

\* str(x) for the value of test_results['license_types_found']
StrOf(license_types_found, seed) ==
  IF license_types_found.type = "set"
    THEN IF license_types_found.elems = {}
           THEN <<"s","e","t","(",")">>
           ELSE <<"{">>
                \o JoinRepr(SetIterationOrder(license_types_found.elems, seed), 1)
                \o <<"}">>
    ELSE <<"[">> \o JoinRepr(license_types_found.elems, 1) \o <<"]">>

\* `x in test_results['license_types_found']`
InFound(x, license_types_found) ==
  IF license_types_found.type = "set"
    THEN x \in license_types_found.elems
    ELSE x \in Range(license_types_found.elems)

\* len(test_results['license_types_found'])
LenFound(license_types_found) ==
  IF license_types_found.type = "set"
    THEN Cardinality(license_types_found.elems)
    ELSE Len(license_types_found.elems)

(***************************************************************************)
(* generate_test_summary                                                   *)
(***************************************************************************)
license_categories ==
  << [category |-> "permissive",
      licenses |-> <<"MIT", "Apache-2.0", "BSD-3-Clause", "ISC">>],
     [category |-> "copyleft",
      licenses |-> <<"GPL-2.0", "GPL-3.0", "LGPL-2.1", "AGPL-3.0">>],
     [category |-> "weak_copyleft", licenses |-> <<"MPL-2.0", "EPL-2.0">>],
     [category |-> "creative_commons",
      licenses |-> <<"CC-BY-4.0", "CC-BY-SA-4.0", "CC-BY-NC-4.0">>],
     [category |-> "proprietary", licenses |-> <<"Proprietary", "Commercial">>] >>

RECURSIVE GCD(_, _)
GCD(a, b) == IF b = 0 THEN a ELSE GCD(b, a % b)

\* the float (a / b) * 100, kept as the fraction it rounds, in lowest terms
Percent(a, b) ==
  LET g == GCD(a * 100, b)
  IN [num |-> (a * 100) \div g, den |-> b \div g]

\* variant of FoundCount: the condition of the generator is dropped
FoundCount_CountsAll(licenses, license_types_found) == Len(licenses)

\* sum(1 for license in licenses if license in license_types_found)
FoundCount(licenses, license_types_found) ==
  Cardinality({i \in DOMAIN licenses : InFound(licenses[i], license_types_found)})

scanoss_detection_targets ==
  << "Copyleft licenses (should trigger policy violations)",
     "Mixed license conflicts",
     "Proprietary license components",
     "Creative Commons variants",
     "License header patterns",
     "SPDX identifiers" >>

\* variant of SuccessRate: the rate is taken over the modules tested
SuccessRate_OfTested(results) ==
  Percent(results.modules_tested, results.total_modules)

\* (successful_loads / total_modules) * 100
SuccessRate(results) ==
  Percent(results.modules_loaded, results.total_modules)

generate_test_summary(results, seed) ==
  LET successful_loads == results.modules_loaded
      total_modules == results.total_modules
      found == results.license_types_found
      found_by_category ==
        [c \in DOMAIN license_categories |->
           LET licenses == license_categories[c].licenses
               found_count == FoundCount(licenses, found)
           IN [category |-> license_categories[c].category,
               found |-> found_count,
               total |-> Len(licenses),
               percentage |-> IF Len(licenses) > 0
                                THEN Percent(found_count, Len(licenses))
                                ELSE Percent(0, 1)]]
      repr == StrOf(found, seed)
  IN [module_load_success_rate |-> SuccessRate(results),
      total_unique_licenses |-> LenFound(found),
      license_categories |-> found_by_category,
      test_coverage |->
        [copyleft_licenses |->
           Contains(repr, <<"G","P","L","-","2",".","0",","," ",
                            "G","P","L","-","3",".","0",","," ",
                            "L","G","P","L","-","2",".","1",","," ",
                            "A","G","P","L","-","3",".","0">>),
         permissive_licenses |-> InFound("Apache-2.0", found),
         proprietary_licenses |->
           Contains(repr, <<"P","r","o","p","r","i","e","t","a","r","y">>),
         creative_commons |-> Contains(repr, <<"C","C","-","B","Y">>)],
      scanoss_detection_targets |-> scanoss_detection_targets]

generate_license_report == "# SCANOSS License Detection Test Report ..."

(***************************************************************************)
(* run_license_detection_tests                                             *)
(***************************************************************************)
\* dict[key] = value on an insertion-ordered dict kept as a sequence of items
DictSet(d, key, value) ==
  IF \E i \in DOMAIN d : d[i].key = key
    THEN [i \in DOMAIN d |->
            IF d[i].key = key THEN [key |-> key, value |-> value] ELSE d[i]]
    ELSE Append(d, [key |-> key, value |-> value])

\* set.update(list)
SetUpdate(found, licenses) ==
  [found EXCEPT !.elems = @ \cup Range(licenses)]

\* test_results['modules_loaded'] += 1
CountLoaded(trs) == [trs EXCEPT !.modules_loaded = @ + 1]

\* variant of AddFound: the update is given the entry's license_type
AddFound_LicenseType(trs, module_info) ==
  [trs EXCEPT !.license_types_found =
     SetUpdate(@, <<module_info.license_type>>)]

\* test_results['license_types_found'].update(module_info['expected_licenses'])
AddFound(trs, module_info) ==
  [trs EXCEPT !.license_types_found =
     SetUpdate(@, module_info.expected_licenses)]

\* the statements of the try block, run up to the first one that raises:
\* the import, the flag and the counter, the docstring analysis, the update
TryBlock(tr, trs, module_info, imp) ==
  IF imp.raises # "none"
    THEN [test_result |-> tr, test_results |-> trs, raises |-> imp.raises]
    ELSE
      LET tr1 == [tr EXCEPT !.load_successful = TRUE]
          trs1 == CountLoaded(trs)
      IN IF Truthy(imp.doc) /\ imp.doc.type # "str"
           THEN \* text.lower() on a value that is not a str
                [test_result |-> tr1, test_results |-> trs1,
                 raises |-> "AttributeError"]
           ELSE
             LET tr2 == IF Truthy(imp.doc)
                          THEN [tr1 EXCEPT !.license_patterns_found =
                                  @ \o analyze_license_patterns(imp.doc.value)]
                          ELSE tr1
                 trs2 == AddFound(trs1, module_info)
             IN [test_result |-> tr2, test_results |-> trs2,
                 raises |-> "none"]

\* variant of ExceptClause: the second clause is missing
ExceptClause_OnlyImport(cls) ==
  IF "ImportError" \in ExceptionBases(cls) THEN "Import error: "
  ELSE "propagate"

\* which except clause takes an exception of class cls: the prefix of the
\* string it records, or "propagate" when no clause matches
ExceptClause(cls) ==
  IF "ImportError" \in ExceptionBases(cls) THEN "Import error: "
  ELSE IF "Exception" \in ExceptionBases(cls) THEN "General error: "
  ELSE "propagate"

\* variant of NewResults: total_modules is one short
NewResults_OffByOne(test_modules) ==
  [total_modules |-> Len(test_modules) - 1,
   modules_tested |-> 0,
   modules_loaded |-> 0,
   license_types_found |-> [type |-> "set", elems |-> {}],
   test_details |-> <<>>,
   summary |-> NoValue]

\* the accumulator as run_license_detection_tests creates it
NewResults(test_modules) ==
  [total_modules |-> Len(test_modules),
   modules_tested |-> 0,
   modules_loaded |-> 0,
   license_types_found |-> [type |-> "set", elems |-> {}],
   test_details |-> <<>>,
   summary |-> NoValue]

\* the per-module record as the loop body creates it
NewResult(module_info) ==
  [module_path |-> module_info.module,
   expected_licenses |-> module_info.expected_licenses,
   license_type |-> module_info.license_type,
   load_successful |-> FALSE,
   license_patterns_found |-> <<>>,
   errors |-> <<>>]

\* variant of RecordInto: a module that failed is stored but not counted
RecordInto_SkipFailed(trs, module_name, tr) ==
  [trs EXCEPT !.test_details = DictSet(@, module_name, tr),
              !.modules_tested = IF tr.errors = <<>> THEN @ + 1 ELSE @]

\* variant of RecordInto: only a module that failed is counted as tested
RecordInto_CountsFailuresOnly(trs, module_name, tr) ==
  [trs EXCEPT !.test_details = DictSet(@, module_name, tr),
              !.modules_tested = IF tr.errors # <<>> THEN @ + 1 ELSE @]

\* test_results['test_details'][module_name] = test_result
\* test_results['modules_tested'] += 1
RecordInto(trs, module_name, tr) ==
  [trs EXCEPT !.test_details = DictSet(@, module_name, tr),
              !.modules_tested = @ + 1]

\* main up to its call of run_license_detection_tests, and that function up
\* to its loop
StartScan ==
  /\ pc = "main"
  /\ test_results' = NewResults(discover_license_test_modules)
  /\ iter' = 1
  /\ pc' = "loop"
  /\ UNCHANGED <<environment, hash_seed, run, test_result, report, files,
                 written, exit_status>>
  /\ UNCHANGED otherVars

\* the loop body up to the end of the try statement
TryImport ==
  /\ pc = "loop"
  /\ iter <= Len(discover_license_test_modules)
  /\ LET module_info == discover_license_test_modules[iter]
         fresh == NewResult(module_info)
         out == TryBlock(fresh, test_results, module_info,
                         ImportOutcome(environment[module_info.module]))
         clause == IF out.raises = "none" THEN "none"
                   ELSE ExceptClause(out.raises)
     IN /\ test_results' = out.test_results
        /\ IF clause = "none"
             THEN /\ test_result' = out.test_result
                  /\ pc' = "record"
                  /\ exit_status' = exit_status
             ELSE IF clause = "propagate"
               THEN /\ test_result' = out.test_result
                    /\ pc' = "exit"
                    /\ exit_status' = 1
               ELSE /\ test_result' =
                         [out.test_result EXCEPT !.errors =
                            Append(@, clause \o ExceptionMessage(
                                        out.raises, module_info.module))]
                    /\ pc' = "record"
                    /\ exit_status' = exit_status
  /\ UNCHANGED <<environment, hash_seed, run, iter, report, files, written>>
  /\ UNCHANGED otherVars

\* the two statements after the try statement, and the step to the next entry
RecordResult ==
  /\ pc = "record"
  /\ test_results' =
       RecordInto(test_results, discover_license_test_modules[iter].name,
                  test_result)
  /\ iter' = iter + 1
  /\ pc' = "loop"
  /\ UNCHANGED <<environment, hash_seed, run, test_result, report, files,
                 written, exit_status>>
  /\ UNCHANGED otherVars

\* variant of Summarize: the summary step also turns the set into a list
Summarize_ConvertsSet ==
  /\ pc = "loop"
  /\ iter > Len(discover_license_test_modules)
  /\ \E seed \in 1..NumHashSeeds :
       /\ hash_seed' = seed
       /\ test_results' =
            [test_results EXCEPT
               !.summary = generate_test_summary(test_results, seed),
               !.license_types_found =
                  [type |-> "list",
                   elems |-> SetIterationOrder(@.elems, seed)]]
  /\ pc' = "display"
  /\ UNCHANGED <<environment, run, iter, test_result, report, files, written,
                 exit_status>>
  /\ UNCHANGED otherVars

\* after the loop: the summary is stored and the function returns to main
Summarize ==
  /\ pc = "loop"
  /\ iter > Len(discover_license_test_modules)
  /\ \E seed \in 1..NumHashSeeds :
       /\ hash_seed' = seed
       /\ test_results' =
            [test_results EXCEPT
               !.summary = generate_test_summary(test_results, seed)]
  /\ pc' = "display"
  /\ UNCHANGED <<environment, run, iter, test_result, report, files, written,
                 exit_status>>
  /\ UNCHANGED otherVars

(***************************************************************************)
(* main                                                                    *)
(***************************************************************************)
\* variant of ListOf: the set is left as it is
ListOf_NoConversion(license_types_found, seed) == license_types_found

\* list(x) for the value of test_results['license_types_found']
ListOf(license_types_found, seed) ==
  IF license_types_found.type = "set"
    THEN [type |-> "list",
          elems |-> SetIterationOrder(license_types_found.elems, seed)]
    ELSE license_types_found

\* json.dump: a set is not serializable; everything else test_results holds is
JsonDump(results) ==
  IF results.license_types_found.type = "set"
    THEN [raises |-> "TypeError"]
    ELSE [raises |-> "none",
          data |-> [results EXCEPT
                      !.license_types_found = results.license_types_found.elems]]

\* the names main's return expression reads, and the names bound where it is
\* evaluated (main's locals and the module's globals)
ReturnNames == <<"test_results", "advanced_results", "combined_results">>
BoundNames ==
  {"test_results", "report", "results_file", "report_file", "f",
   "category", "stats",
   "os", "sys", "json", "importlib", "Dict", "List", "Any", "Path",
   "discover_license_test_modules", "run_license_detection_tests",
   "analyze_license_patterns", "generate_test_summary",
   "generate_license_report", "main"}

\* the prints of the results and the call of generate_license_report
DisplayAndReport ==
  /\ pc = "display"
  /\ report' = generate_license_report
  /\ pc' = "save_results"
  /\ UNCHANGED <<environment, hash_seed, run, iter, test_result, test_results,
                 files, written, exit_status>>
  /\ UNCHANGED otherVars

\* with open(results_file, 'w'): the conversion, then json.dump
SaveResults ==
  /\ pc = "save_results"
  /\ LET converted ==
           [test_results EXCEPT
              !.license_types_found = ListOf(@, hash_seed)]
         dumped == JsonDump(converted)
     IN /\ test_results' = converted
        /\ IF dumped.raises = "none"
             THEN /\ files' = [files EXCEPT ![results_file] = Holding(dumped.data)]
                  /\ pc' = "save_report"
                  /\ exit_status' = exit_status
             ELSE /\ files' = [files EXCEPT ![results_file] = Truncated]
                  /\ pc' = "exit"
                  /\ exit_status' = 1
  /\ written' = Append(written, results_file)
  /\ UNCHANGED <<environment, hash_seed, run, iter, test_result, report>>
  /\ UNCHANGED otherVars

\* variant of SaveReport: the report written mentions failed loads
SaveReport_WithCounts ==
  /\ pc = "save_report"
  /\ files' = [files EXCEPT ![report_file] =
                 Holding(IF test_results.modules_loaded
                              = test_results.total_modules
                           THEN report
                           ELSE report \o " (some modules failed to load)")]
  /\ written' = Append(written, report_file)
  /\ pc' = "return"
  /\ UNCHANGED <<environment, hash_seed, run, iter, test_result, test_results,
                 report, exit_status>>
  /\ UNCHANGED otherVars

\* with open(report_file, 'w'): f.write(report)
SaveReport ==
  /\ pc = "save_report"
  /\ files' = [files EXCEPT ![report_file] = Holding(report)]
  /\ written' = Append(written, report_file)
  /\ pc' = "return"
  /\ UNCHANGED <<environment, hash_seed, run, iter, test_result, test_results,
                 report, exit_status>>
  /\ UNCHANGED otherVars

\* the closing prints and the return statement: evaluating its dict display
\* raises NameError at the first name that is not bound; the exception leaves
\* main and ends the process
Return ==
  /\ pc = "return"
  /\ exit_status' =
       IF \A i \in DOMAIN ReturnNames : ReturnNames[i] \in BoundNames
         THEN 0 ELSE 1
  /\ pc' = "exit"
  /\ UNCHANGED <<environment, hash_seed, run, iter, test_result, test_results,
                 report, files, written>>
  /\ UNCHANGED otherVars

\* the script is run again in the same working directory, same environment
Rerun ==
  /\ pc = "exit"
  /\ run < MaxRuns
  /\ run' = run + 1
  /\ pc' = "main"
  /\ hash_seed' = 0
  /\ iter' = 0
  /\ test_result' = NoValue
  /\ test_results' = NoValue
  /\ report' = NoValue
  /\ written' = <<>>
  /\ exit_status' = NotExited
  /\ UNCHANGED <<environment, files>>
  /\ UNCHANGED otherVars

Init ==
  /\ environment \in Environments
  /\ hash_seed = 0
  /\ run = 1
  /\ pc = "main"
  /\ iter = 0
  /\ test_result = NoValue
  /\ test_results = NoValue
  /\ report = NoValue
  /\ files = [f \in {results_file, report_file} |-> Absent]
  /\ written = <<>>
  /\ exit_status = NotExited
  /\ text = <<>>
  /\ found_patterns = <<>>
  /\ apc = "idle"
  /\ ScanIdle
  /\ ConnIdle
  /\ LibIdle

Next ==
  \/ StartScan
  \/ TryImport
  \/ RecordResult
  \/ Summarize
  \/ DisplayAndReport
  \/ SaveResults
  \/ SaveReport
  \/ Return
  \/ Rerun

Spec == Init /\ [][Next]_vars

(***************************************************************************)
(* Direct calls of analyze_license_patterns on bounded texts               *)
(***************************************************************************)
\* fragments the argument texts are made of
Fragments ==
  << <<"L","i","c","e","n","s","e","d"," ","u","n","d","e","r"," ","t","h","e"," ">>,
     <<"A","p","a","c","h","e"," ","L","i","c","e","n","s","e">>,
     <<","," ","V","e","r","s","i","o","n"," ","2",".","0">>,
     <<"g","p","l">>,
     <<"L","G","P","L">>,
     <<"COPYRIGHT_SIGN">>,
     <<"M","I","T">>,
     <<" ","L","I","C","E","N","S","E">>,
     <<"c","c"," ","b","y">>,
     <<"-","S","A">> >>

RECURSIVE TextsOf(_)
\* the texts made of exactly n fragments
TextsOf(n) ==
  IF n = 0 THEN {<<>>}
  ELSE {t \o Fragments[i] : t \in TextsOf(n - 1), i \in DOMAIN Fragments}

\* the texts made of at most MaxWords fragments
Texts == UNION {TextsOf(n) : n \in 0..MaxWords}

InitCall ==
  /\ environment = [m \in ModulePaths |-> "loaded"]
  /\ hash_seed = 0
  /\ run = 1
  /\ pc = "main"
  /\ iter = 0
  /\ test_result = NoValue
  /\ test_results = NoValue
  /\ report = NoValue
  /\ files = [f \in {results_file, report_file} |-> Absent]
  /\ written = <<>>
  /\ exit_status = NotExited
  /\ text \in Texts
  /\ found_patterns = <<>>
  /\ apc = "call"
  /\ ScanIdle
  /\ ConnIdle
  /\ LibIdle

\* found_patterns = analyze_license_patterns(text)
Analyze ==
  /\ apc = "call"
  /\ found_patterns' = analyze_license_patterns(text)
  /\ apc' = "returned"
  /\ UNCHANGED text
  /\ UNCHANGED <<runVars, scanVars, connVars, libVars>>

NextCall == Analyze

SpecCall == InitCall /\ [][NextCall]_vars
(***************************************************************************)
(* GPLv2NetworkScanner.gpl2_port_scan: one calling thread, one scan thread *)
(* per port                                                                *)
(***************************************************************************)
\* scan threads that may be running at the same moment
MaxAlive == 2
\* ports beyond a full batch in the longest ports argument
MaxExtraPorts == 1

\* self.max_threads
max_threads == 50

\* main is not running in the specifications of the library calls
MainIdle ==
  /\ environment = [m \in ModulePaths |-> "loaded"]
  /\ hash_seed = 0
  /\ run = 1
  /\ pc = "main"
  /\ iter = 0
  /\ test_result = NoValue
  /\ test_results = NoValue
  /\ report = NoValue
  /\ files = [f \in {results_file, report_file} |-> Absent]
  /\ written = <<>>
  /\ exit_status = NotExited
  /\ text = <<>>
  /\ found_patterns = <<>>
  /\ apc = "idle"

\* d[key] = value on a dict whose order is not observed
SetItem(d, key, value) == (key :> value) @@ d

\* the first n ports from 80 on
PortRange(n) == [i \in 1..n |-> 79 + i] \o <<>>

\* the ports arguments: empty, one with a repeated port, a full batch, and
\* a full batch followed by a remainder
PortLists ==
  {<<>>, <<80, 443, 80>>}
    \cup {PortRange(max_threads + k) : k \in 0..MaxExtraPorts}

\* "web_server": the host listens on 80 and 443 and refuses the rest;
\* "no_sockets": socket.socket() raises OSError
Networks == {"web_server", "no_sockets"}

SocketRaises(net) == net = "no_sockets"

\* sock.connect_ex((host, port)): 0 on success, else an errno (ECONNREFUSED)
connect_ex(net, port) == IF port \in {80, 443} THEN 0 ELSE 111

\* the value scan_port stores in results[port]
scan_port(net, port) ==
  IF SocketRaises(net) THEN FALSE ELSE connect_ex(net, port) = 0

\* threads whose run() has not ended
Alive == {t \in DOMAIN thread_state : thread_state[t] = "alive"}
\* threads that were started and that the caller has not joined
Unjoined == {t \in DOMAIN thread_state : thread_state[t] # "joined"}

LimitReached_OffByOne(thread_list) == Len(thread_list) > max_threads

\* if len(threads) >= self.max_threads
LimitReached(thread_list) == Len(thread_list) >= max_threads

InitScan ==
  /\ MainIdle
  /\ ConnIdle
  /\ LibIdle
  /\ network \in Networks
  /\ ports \in PortLists
  /\ spc = "loop"
  /\ port_idx = 0
  /\ threads = <<>>
  /\ join_idx = 0
  /\ thread_state = <<>>
  /\ port_results = <<>>

\* one iteration of "for port in ports": create, append, start, test the limit
StartThread ==
  /\ spc = "loop"
  /\ port_idx < Len(ports)
  /\ Cardinality(Alive) < MaxAlive
  /\ port_idx' = port_idx + 1
  /\ thread_state' = Append(thread_state, "alive")
  /\ threads' = Append(threads, Len(thread_state) + 1)
  /\ IF LimitReached(threads')
       THEN spc' = "join_batch" /\ join_idx' = 0
       ELSE UNCHANGED <<spc, join_idx>>
  /\ UNCHANGED <<runVars, callVars, connVars, libVars>>
  /\ UNCHANGED <<network, ports, port_results>>

\* the scan thread of the t-th port runs scan_port to its end
ScanPort(t) ==
  /\ thread_state[t] = "alive"
  /\ port_results' = SetItem(port_results, ports[t], scan_port(network, ports[t]))
  /\ thread_state' = [thread_state EXCEPT ![t] = "stopped"]
  /\ UNCHANGED <<runVars, callVars, connVars, libVars>>
  /\ UNCHANGED <<network, ports, spc, port_idx, threads, join_idx>>

\* t.join() in either join loop: returns once the thread has ended
JoinThread ==
  /\ spc \in {"join_batch", "join_rest"}
  /\ join_idx < Len(threads)
  /\ thread_state[threads[join_idx + 1]] = "stopped"
  /\ thread_state' = [thread_state EXCEPT ![threads[join_idx + 1]] = "joined"]
  /\ join_idx' = join_idx + 1
  /\ UNCHANGED <<runVars, callVars, connVars, libVars>>
  /\ UNCHANGED <<network, ports, spc, port_idx, threads, port_results>>

\* threads = [] after the join loop inside the for loop
BatchJoined ==
  /\ spc = "join_batch"
  /\ join_idx = Len(threads)
  /\ threads' = <<>>
  /\ spc' = "loop"
  /\ join_idx' = 0
  /\ UNCHANGED <<runVars, callVars, connVars, libVars>>
  /\ UNCHANGED <<network, ports, port_idx, thread_state, port_results>>

\* the for loop over ports is exhausted
LoopDone ==
  /\ spc = "loop"
  /\ port_idx = Len(ports)
  /\ spc' = "join_rest"
  /\ join_idx' = 0
  /\ UNCHANGED <<runVars, callVars, connVars, libVars>>
  /\ UNCHANGED <<network, ports, port_idx, threads, thread_state, port_results>>

\* return results
ReturnResults ==
  /\ spc = "join_rest"
  /\ join_idx = Len(threads)
  /\ spc' = "returned"
  /\ UNCHANGED <<runVars, callVars, connVars, libVars>>
  /\ UNCHANGED <<network, ports, port_idx, threads, join_idx, thread_state,
                 port_results>>

NextScan ==
  \/ StartThread
  \/ \E t \in DOMAIN thread_state : ScanPort(t)
  \/ JoinThread
  \/ BatchJoined
  \/ LoopDone
  \/ ReturnResults

SpecScan == InitScan /\ [][NextScan]_vars

(***************************************************************************)
(* AGPLv3DatabaseManager.agpl3_get_connection called from several threads  *)
(***************************************************************************)
\* threads calling agpl3_get_connection on one manager
NumCallers == 2
\* calls they make altogether
MaxCalls == 3

Callers == 1..NumCallers

\* the default of the thread_id parameter
None == 0
\* self.lock when no thread holds it
Unlocked == 0
\* conn before sqlite3.connect has been called
NoConn == 0

\* threading.get_ident() in caller c
get_ident(c) == 100 + c

\* the thread_id arguments: the default, or the identifier of some caller
ThreadIdArgs == {None} \cup {get_ident(c) : c \in Callers}

CanAcquire_NoLock(l) == TRUE

\* entering "with self.lock" blocks while another thread holds the lock
CanAcquire(l) == l = Unlocked

InitConn ==
  /\ MainIdle
  /\ ScanIdle
  /\ LibIdle
  /\ lock = Unlocked
  /\ connections = <<>>
  /\ created = <<>>
  /\ cpc = [c \in Callers |-> "idle"]
  /\ calls = 0
  /\ thread_id = [c \in Callers |-> None]
  /\ conn = [c \in Callers |-> NoConn]
  /\ returned = {}

\* caller c calls agpl3_get_connection(arg)
Call(c, arg) ==
  /\ cpc[c] = "idle"
  /\ calls < MaxCalls
  /\ calls' = calls + 1
  /\ thread_id' = [thread_id EXCEPT ![c] = arg]
  /\ cpc' = [cpc EXCEPT ![c] = "entered"]
  /\ UNCHANGED <<lock, connections, created, conn, returned>>
  /\ UNCHANGED <<runVars, callVars, scanVars, libVars>>

\* if thread_id is None: thread_id = threading.get_ident()
ResolveThreadId(c) ==
  /\ cpc[c] = "entered"
  /\ thread_id' = [thread_id EXCEPT
                     ![c] = IF @ = None THEN get_ident(c) ELSE @]
  /\ cpc' = [cpc EXCEPT ![c] = "acquire"]
  /\ UNCHANGED <<lock, connections, created, calls, conn, returned>>
  /\ UNCHANGED <<runVars, callVars, scanVars, libVars>>

\* with self.lock:
Acquire(c) ==
  /\ cpc[c] = "acquire"
  /\ CanAcquire(lock)
  /\ lock' = c
  /\ cpc' = [cpc EXCEPT ![c] = "locked"]
  /\ UNCHANGED <<connections, created, calls, thread_id, conn, returned>>
  /\ UNCHANGED <<runVars, callVars, scanVars, libVars>>

\* thread_id not in self.connections: conn = sqlite3.connect(...)
Connect(c) ==
  /\ cpc[c] = "locked"
  /\ thread_id[c] \notin DOMAIN connections
  /\ created' = Append(created, [thread_id |-> thread_id[c], setups |-> 0])
  /\ conn' = [conn EXCEPT ![c] = Len(created) + 1]
  /\ cpc' = [cpc EXCEPT ![c] = "setup"]
  /\ UNCHANGED <<lock, connections, calls, thread_id, returned>>
  /\ UNCHANGED <<runVars, callVars, scanVars, libVars>>

\* self._agpl3_setup_tables(conn)
SetupTables(c) ==
  /\ cpc[c] = "setup"
  /\ created' = [created EXCEPT ![conn[c]].setups = @ + 1]
  /\ cpc' = [cpc EXCEPT ![c] = "store"]
  /\ UNCHANGED <<lock, connections, calls, thread_id, conn, returned>>
  /\ UNCHANGED <<runVars, callVars, scanVars, libVars>>

\* self.connections[thread_id] = conn
Store(c) ==
  /\ cpc[c] = "store"
  /\ connections' = SetItem(connections, thread_id[c], conn[c])
  /\ cpc' = [cpc EXCEPT ![c] = "return"]
  /\ UNCHANGED <<lock, created, calls, thread_id, conn, returned>>
  /\ UNCHANGED <<runVars, callVars, scanVars, libVars>>

\* thread_id in self.connections: the if body is skipped
Found(c) ==
  /\ cpc[c] = "locked"
  /\ thread_id[c] \in DOMAIN connections
  /\ cpc' = [cpc EXCEPT ![c] = "return"]
  /\ UNCHANGED <<lock, connections, created, calls, thread_id, conn, returned>>
  /\ UNCHANGED <<runVars, callVars, scanVars, libVars>>

\* return self.connections[thread_id], leaving the with block
ReturnConnection(c) ==
  /\ cpc[c] = "return"
  /\ returned' = returned \cup
       {[caller |-> c, thread_id |-> thread_id[c],
         conn |-> connections[thread_id[c]]]}
  /\ lock' = Unlocked
  /\ thread_id' = [thread_id EXCEPT ![c] = None]
  /\ conn' = [conn EXCEPT ![c] = NoConn]
  /\ cpc' = [cpc EXCEPT ![c] = "idle"]
  /\ UNCHANGED <<connections, created, calls>>
  /\ UNCHANGED <<runVars, callVars, scanVars, libVars>>

NextConn ==
  \/ \E c \in Callers, arg \in ThreadIdArgs : Call(c, arg)
  \/ \E c \in Callers : ResolveThreadId(c)
  \/ \E c \in Callers : Acquire(c)
  \/ \E c \in Callers : Connect(c)
  \/ \E c \in Callers : SetupTables(c)
  \/ \E c \in Callers : Store(c)
  \/ \E c \in Callers : Found(c)
  \/ \E c \in Callers : ReturnConnection(c)

SpecConn == InitConn /\ [][NextConn]_vars

(***************************************************************************)
(* HTTPDownloader.download_with_retries                                    *)
(***************************************************************************)
\* largest retries argument (the default is 3)
MaxRetries == 3

\* the Python value None as a return value
ReturnNone == [kind |-> "None"]

\* what one call of _perform_download does: it returns response.read(), or
\* raises from Request() or urlopen()
DownloadOutcomes ==
  {[kind |-> "bytes", value |-> ""],
   [kind |-> "bytes", value |-> "<html>"],
   [kind |-> "raise", value |-> "URLError"],
   [kind |-> "raise", value |-> "TimeoutError"],
   [kind |-> "raise", value |-> "ValueError"]}

\* the classes a download exception derives from (itself included)
DownloadErrorBases(cls) ==
  CASE cls = "URLError" -> {"URLError", "OSError", "Exception", "BaseException"}
    [] cls = "TimeoutError" ->
         {"TimeoutError", "OSError", "Exception", "BaseException"}
    [] cls = "ValueError" -> {"ValueError", "Exception", "BaseException"}

Catches_OnlyURLError(cls) == "URLError" \in DownloadErrorBases(cls)

\* except Exception as e
Catches(cls) == "Exception" \in DownloadErrorBases(cls)

\* len(range(retries + 1))
Attempts(r) == IF r + 1 > 0 THEN r + 1 ELSE 0

InitDownload ==
  /\ MainIdle
  /\ ScanIdle
  /\ ConnIdle
  /\ ClusterIdle
  /\ ConfigIdle
  /\ ComplianceIdle
  /\ CryptIdle
  /\ retries \in -1..MaxRetries
  /\ attempt = 0
  /\ dpc = "loop"
  /\ downloads = <<>>
  /\ download_result = NoValue

\* one iteration of the for loop: the try statement and its handler
Attempt(outcome) ==
  /\ dpc = "loop"
  /\ attempt < Attempts(retries)
  /\ downloads' = Append(downloads, outcome)
  /\ IF outcome.kind = "bytes"
       THEN /\ download_result' = outcome
            /\ dpc' = "returned"
            /\ UNCHANGED attempt
       ELSE IF ~Catches(outcome.value)
         THEN /\ dpc' = "raised"
              /\ UNCHANGED <<attempt, download_result>>
         ELSE IF attempt = retries
           THEN /\ download_result' = ReturnNone
                /\ dpc' = "returned"
                /\ UNCHANGED attempt
           ELSE /\ attempt' = attempt + 1
                /\ UNCHANGED <<dpc, download_result>>
  /\ UNCHANGED retries
  /\ UNCHANGED exceptDownload

\* the return None after the loop
LoopExhausted ==
  /\ dpc = "loop"
  /\ attempt >= Attempts(retries)
  /\ download_result' = ReturnNone
  /\ dpc' = "returned"
  /\ UNCHANGED <<retries, attempt, downloads>>
  /\ UNCHANGED exceptDownload

NextDownload ==
  \/ \E outcome \in DownloadOutcomes : Attempt(outcome)
  \/ LoopExhausted

SpecDownload == InitDownload /\ [][NextDownload]_vars

(***************************************************************************)
(* EPL2DataMiningEngine.epl2_clustering_analysis on one-dimensional points *)
(* with integer coordinates; centroids are kept as exact fractions         *)
(***************************************************************************)
\* longest data_points argument
MaxPoints == 3
\* largest coordinate of a point
MaxCoord == 3
\* largest k argument
MaxK == 4

\* max_iterations = 100
max_iterations == 100

RECURSIVE ListsOf(_)
\* the lists of exactly n points
ListsOf(n) ==
  IF n = 0 THEN {<<>>}
  ELSE {Append(l, x) : l \in ListsOf(n - 1), x \in 0..MaxCoord}

\* the data_points arguments
PointLists == UNION {ListsOf(n) : n \in 0..MaxPoints}

\* a point taken as a centroid
AsCentroid(x) == [num |-> x, den |-> 1]

\* data_points[:k], for either branch of _epl2_initialize_centroids
_epl2_initialize_centroids(points, k) ==
  [i \in 1..(IF k < Len(points) THEN k ELSE Len(points)) |->
     AsCentroid(points[i])] \o <<>>

\* math.sqrt((a - b) ** 2), as a fraction
_epl2_euclidean_distance(point, centroid) ==
  LET d == point * centroid.den - centroid.num
  IN [num |-> IF d < 0 THEN -d ELSE d, den |-> centroid.den]

\* d1 < d2 on fractions with positive denominators
Less(d1, d2) == d1.num * d2.den < d2.num * d1.den

\* distances.index(min(distances)): the first centroid at minimal distance
ClosestCentroid(point, cs) ==
  LET dist(i) == _epl2_euclidean_distance(point, cs[i + 1])
  IN CHOOSE i \in 0..(Len(cs) - 1) :
       \A j \in 0..(Len(cs) - 1) :
         /\ ~Less(dist(j), dist(i))
         /\ j < i => Less(dist(i), dist(j))

\* the new_assignments list of one pass
NewAssignments(points, cs) ==
  [i \in DOMAIN points |-> ClosestCentroid(points[i], cs)] \o <<>>

\* indices of the points assigned to cluster_id
ClusterMembers(asg, cluster_id) == {i \in DOMAIN asg : asg[i] = cluster_id}

RECURSIVE SumOver(_, _)
SumOver(points, S) ==
  IF S = {} THEN 0
  ELSE LET i == CHOOSE j \in S : TRUE
       IN points[i] + SumOver(points, S \ {i})

\* statistics.mean of the cluster's coordinates, in lowest terms
Mean(points, S) ==
  LET s == SumOver(points, S)
      n == Cardinality(S)
      g == GCD(s, n)
  IN [num |-> s \div g, den |-> n \div g]

\* centroids[cluster_id] does not raise IndexError
IndexInRange(cs, cluster_id) == cluster_id < Len(cs)

\* the centroid update raises IndexError: an empty cluster without an old
\* centroid
UpdateRaises(cs, asg, k) ==
  \E cluster_id \in 0..(k - 1) :
    /\ ClusterMembers(asg, cluster_id) = {}
    /\ ~IndexInRange(cs, cluster_id)

\* the new_centroids list
NewCentroids(points, cs, asg, k) ==
  [c \in 1..k |->
     IF ClusterMembers(asg, c - 1) # {}
       THEN Mean(points, ClusterMembers(asg, c - 1))
       ELSE cs[c]] \o <<>>

\* the sizes reported by _epl2_analyze_clusters
_epl2_analyze_clusters(asg, cs) ==
  [c \in 1..Len(cs) |-> [size |-> Cardinality(ClusterMembers(asg, c - 1)),
                         centroid |-> cs[c]]] \o <<>>

InitCluster ==
  /\ MainIdle
  /\ ScanIdle
  /\ ConnIdle
  /\ DownloadIdle
  /\ ConfigIdle
  /\ ComplianceIdle
  /\ CryptIdle
  /\ data_points \in PointLists
  /\ num_clusters \in 0..MaxK
  /\ centroids = <<>>
  /\ assignments = <<>>
  /\ iteration = 0
  /\ kpc = "call"
  /\ cluster_result = NoValue

\* if not data_points or k <= 0: return {'error': ...}
RejectParameters ==
  /\ kpc = "call"
  /\ data_points = <<>> \/ num_clusters <= 0
  /\ cluster_result' = [error |-> "Invalid clustering parameters"]
  /\ kpc' = "returned"
  /\ UNCHANGED <<data_points, num_clusters, centroids, assignments, iteration>>
  /\ UNCHANGED exceptCluster

\* centroids = ...; assignments = [0] * len(data_points)
Initialize ==
  /\ kpc = "call"
  /\ ~(data_points = <<>> \/ num_clusters <= 0)
  /\ centroids' = _epl2_initialize_centroids(data_points, num_clusters)
  /\ assignments' = [i \in DOMAIN data_points |-> 0] \o <<>>
  /\ iteration' = 0
  /\ kpc' = "assign"
  /\ UNCHANGED <<data_points, num_clusters, cluster_result>>
  /\ UNCHANGED exceptCluster

\* the first half of the loop body: assign, then test for convergence
AssignPoints ==
  /\ kpc = "assign"
  /\ LET new_assignments == NewAssignments(data_points, centroids)
     IN IF new_assignments = assignments
          THEN kpc' = "analyze" /\ UNCHANGED assignments
          ELSE kpc' = "update" /\ assignments' = new_assignments
  /\ UNCHANGED <<data_points, num_clusters, centroids, iteration,
                 cluster_result>>
  /\ UNCHANGED exceptCluster

\* the second half of the loop body: update the centroids
UpdateCentroids ==
  /\ kpc = "update"
  /\ IF UpdateRaises(centroids, assignments, num_clusters)
       THEN kpc' = "raised" /\ UNCHANGED <<centroids, iteration>>
       ELSE /\ centroids' = NewCentroids(data_points, centroids, assignments,
                                         num_clusters)
            /\ IF iteration + 1 < max_iterations
                 THEN iteration' = iteration + 1 /\ kpc' = "assign"
                 ELSE kpc' = "analyze" /\ UNCHANGED iteration
  /\ UNCHANGED <<data_points, num_clusters, assignments, cluster_result>>
  /\ UNCHANGED exceptCluster

\* cluster_stats = ...; return {...}
ReturnClusters ==
  /\ kpc = "analyze"
  /\ cluster_result' =
       [centroids |-> centroids,
        assignments |-> assignments,
        iterations |-> iteration + 1,
        cluster_stats |-> _epl2_analyze_clusters(assignments, centroids)]
  /\ kpc' = "returned"
  /\ UNCHANGED <<data_points, num_clusters, centroids, assignments, iteration>>
  /\ UNCHANGED exceptCluster

NextCluster ==
  \/ RejectParameters
  \/ Initialize
  \/ AssignPoints
  \/ UpdateCentroids
  \/ ReturnClusters

SpecCluster == InitCluster /\ [][NextCluster]_vars

(***************************************************************************)
(* MPL2ConfigurationManager: JSON cache, save, load and merge              *)
(***************************************************************************)
\* mpl2_save_json_config calls made on the manager
MaxSaves == 2
\* names passed to one mpl2_merge_configurations call
MaxMerged == 2

\* the config names used
ConfigNames == {"app", "db"}
Formats == {"json", "xml", "ini"}

\* Python values inside a config dict: strings and numbers, time stamps,
\* nested dicts and sets
Atom(x) == [atom |-> x]
Time(t) == [time |-> t]
Dict(f) == [dict |-> f]
PySet(x) == [set |-> x]
IsDict(v) == "dict" \in DOMAIN v
IsSet(v) == "set" \in DOMAIN v

\* {}
EmptyDict == <<>>

\* self.mpl_metadata
mpl_metadata ==
  [license |-> Atom("MPL-2.0"),
   source_form_available |-> Atom("True"),
   modifications_allowed |-> Atom("True"),
   patent_grant |-> Atom("True")]

\* the config_data arguments of mpl2_save_json_config: a complete config, a
\* config without the required fields, and one json cannot serialize
ConfigData ==
  {[version |-> Atom("2.0"), application |-> Atom("scraper"),
    mpl_metadata |-> Dict(mpl_metadata)],
   [debug |-> Atom("True")],
   [tags |-> PySet("a"), debug |-> Atom("True")]}

\* the keys a JSON file can hold, in the order sort_keys=True writes them
SortedKeys ==
  <<"application", "debug", "last_modified", "license",
    "modifications_allowed", "mpl_license_notice", "mpl_metadata",
    "patent_grant", "source_form_available", "tags", "version">>

RECURSIVE Serializable(_)
\* json can encode every value of the dict
Serializable(d) ==
  \A key \in DOMAIN d :
    /\ ~IsSet(d[key])
    /\ IsDict(d[key]) => Serializable(d[key].dict)

RECURSIVE JsonMembers(_, _)
\* the members json.dump writes for dict d from the i-th sorted key on; the
\* text ends before the first value that cannot be encoded
JsonMembers(d, i) ==
  IF i > Len(SortedKeys) THEN <<>>
  ELSE LET key == SortedKeys[i]
       IN IF key \notin DOMAIN d THEN JsonMembers(d, i + 1)
          ELSE IF IsSet(d[key]) THEN <<>>
          ELSE IF IsDict(d[key])
            THEN <<[key |-> key, object |-> JsonMembers(d[key].dict, 1)]>>
                   \o JsonMembers(d, i + 1)
            ELSE <<[key |-> key, value |-> d[key]]>> \o JsonMembers(d, i + 1)

\* the text json.dump leaves in the file
JsonText(d) == [complete |-> Serializable(d), members |-> JsonMembers(d, 1)]

RECURSIVE JsonObject(_)
\* the dict json.load builds from the members of a JSON object
JsonObject(members) ==
  IF members = <<>> THEN EmptyDict
  ELSE LET m == members[1]
       IN (m.key :> (IF "object" \in DOMAIN m
                       THEN Dict(JsonObject(m.object)) ELSE m.value))
            @@ JsonObject(Tail(members))

\* a JSON file somebody left in the directory
HandWritten == JsonText([version |-> Atom("0.9")])
\* a JSON file cut off in the middle
Malformed == [complete |-> FALSE, members |-> <<>>]

\* d[key] = value unless key is already in d
SetDefault(d, key, value) == IF key \in DOMAIN d THEN d ELSE SetItem(d, key, value)

\* _mpl2_validate_config
_mpl2_validate_config(config) ==
  SetDefault(
    SetDefault(
      SetDefault(config, "mpl_metadata", Dict(mpl_metadata)),
      "version", Atom("default_version")),
    "application", Atom("default_application"))

\* _mpl2_get_default_config
_mpl2_get_default_config(config_name) ==
  [version |-> Atom("1.0"),
   application |-> Atom(config_name),
   mpl_metadata |-> Dict(mpl_metadata),
   mozilla_style |-> Atom("True"),
   defaults |-> Dict([timeout |-> Atom("30"), retries |-> Atom("3"),
                      debug |-> Atom("False")])]

\* _mpl2_format_config, with time.time() returning now
_mpl2_format_config(config, now) ==
  SetItem(SetItem(config, "last_modified", Time(now)),
          "mpl_license_notice", Atom("This Source Code Form is subject to the terms of the Mozilla Public License, v. 2.0"))

\* the except clause of mpl2_load_json_config
LoadFailed ==
  [error |-> Atom("Configuration load failed: Expecting value"),
   fallback |-> Atom("True")]

\* mpl2_load_json_config: the value returned and the cache afterwards
mpl2_load_json_config(cache, dir, config_name) ==
  LET file == dir[<<config_name, "json">>]
  IN IF config_name \in DOMAIN cache
       THEN [value |-> cache[config_name], cache |-> cache]
     ELSE IF ~file.exists
       THEN [value |-> _mpl2_get_default_config(config_name), cache |-> cache]
     ELSE IF file.empty \/ ~file.data.complete
       THEN [value |-> LoadFailed, cache |-> cache]
     ELSE LET validated_config ==
                _mpl2_validate_config(JsonObject(file.data.members))
          IN [value |-> validated_config,
              cache |-> SetItem(cache, config_name, validated_config)]

\* mpl2_load_xml_config
mpl2_load_xml_config(dir, config_name) ==
  LET file == dir[<<config_name, "xml">>]
  IN IF ~file.exists
       THEN [xml_version |-> Atom("1.0"), encoding |-> Atom("utf-8"),
             mpl_license |-> Atom("MPL-2.0"),
             root_element |-> Atom("configuration")]
     ELSE IF file.empty \/ ~file.data.complete
       THEN [xml_error |-> Atom("syntax error"), fallback |-> Atom("True")]
     ELSE [source |-> Atom("xml")]

\* mpl2_parse_ini_config
mpl2_parse_ini_config(dir, config_name) ==
  LET file == dir[<<config_name, "ini">>]
  IN IF ~file.exists THEN EmptyDict
     ELSE IF file.empty THEN EmptyDict
     ELSE IF ~file.data.complete
       THEN [ini_error |-> Atom("File contains no section headers."),
             sections |-> Dict(EmptyDict)]
     ELSE [main |-> Dict([source |-> Atom("ini")])]

\* bool(d.get(key)) for a key whose value, if present, is a non-empty string
Get(d, key) == key \in DOMAIN d

\* bool(d) for a dict
NonEmpty(d) == DOMAIN d # {}

RECURSIVE _mpl2_deep_merge(_, _)
\* _mpl2_deep_merge
_mpl2_deep_merge(base, overlay) ==
  [key \in DOMAIN base \cup DOMAIN overlay |->
     IF key \notin DOMAIN overlay THEN base[key]
     ELSE IF key \in DOMAIN base /\ IsDict(base[key]) /\ IsDict(overlay[key])
       THEN Dict(_mpl2_deep_merge(base[key].dict, overlay[key].dict))
       ELSE overlay[key]]

\* what one round of the loop of mpl2_merge_configurations picks:
\* [found, data] and the cache afterwards
PickConfig(cache, dir, config_name) ==
  LET loaded == mpl2_load_json_config(cache, dir, config_name)
      json_config == loaded.value
      xml_config == mpl2_load_xml_config(dir, config_name)
      ini_config == mpl2_parse_ini_config(dir, config_name)
  IN IF ~Get(json_config, "error") /\ NonEmpty(json_config)
       THEN [found |-> TRUE, data |-> json_config, cache |-> loaded.cache]
     ELSE IF ~Get(xml_config, "xml_error") /\ NonEmpty(xml_config)
       THEN [found |-> TRUE, data |-> xml_config, cache |-> loaded.cache]
     ELSE IF ~Get(ini_config, "ini_error") /\ NonEmpty(ini_config)
       THEN [found |-> TRUE, data |-> ini_config, cache |-> loaded.cache]
     ELSE [found |-> FALSE, data |-> EmptyDict, cache |-> loaded.cache]

RECURSIVE MergeFrom(_, _, _, _)
\* the loop of mpl2_merge_configurations over config_names
MergeFrom(merged_config, cache, dir, config_names) ==
  IF config_names = <<>> THEN [value |-> merged_config, cache |-> cache]
  ELSE LET picked == PickConfig(cache, dir, Head(config_names))
       IN MergeFrom(IF picked.found
                      THEN _mpl2_deep_merge(merged_config, picked.data)
                      ELSE merged_config,
                    picked.cache, dir, Tail(config_names))

\* the states a file of the directory can be in before the manager is made;
\* XML and INI variants are kept for the "app" config only
FileStates(config_name, format) ==
  IF format = "json"
    THEN {Absent, Holding(HandWritten), Holding(Malformed)}
  ELSE IF config_name = "app"
    THEN {Absent, Holding([complete |-> TRUE]), Holding([complete |-> FALSE])}
    ELSE {Absent}

\* the config_names arguments of mpl2_merge_configurations
NameLists ==
  UNION {[1..n -> ConfigNames] : n \in 1..MaxMerged}

InitConfig ==
  /\ MainIdle
  /\ ScanIdle
  /\ ConnIdle
  /\ DownloadIdle
  /\ ClusterIdle
  /\ ComplianceIdle
  /\ CryptIdle
  /\ disk \in {d \in [ConfigNames \X Formats ->
                        UNION {FileStates(key[1], key[2]) :
                                 key \in ConfigNames \X Formats}] :
                 \A key \in ConfigNames \X Formats :
                   d[key] \in FileStates(key[1], key[2])}
  /\ config_cache = EmptyDict
  /\ clock = 0
  /\ config_op = NoValue
  /\ config_return = NoValue

\* manager.mpl2_save_json_config(config_name, config_data)
SaveJson(config_name, config_data) ==
  /\ clock < MaxSaves
  /\ LET formatted_config == _mpl2_format_config(config_data, clock)
     IN /\ disk' = [disk EXCEPT ![<<config_name, "json">>] =
                       Holding(JsonText(formatted_config))]
        /\ IF Serializable(formatted_config)
             THEN /\ config_cache' =
                       SetItem(config_cache, config_name, formatted_config)
                  /\ config_return' = TRUE
             ELSE /\ UNCHANGED config_cache
                  /\ config_return' = FALSE
  /\ clock' = clock + 1
  /\ config_op' = [op |-> "save", config_name |-> config_name,
                   config_data |-> config_data]
  /\ UNCHANGED exceptConfig

\* manager.mpl2_load_json_config(config_name)
LoadJson(config_name) ==
  /\ LET loaded == mpl2_load_json_config(config_cache, disk, config_name)
     IN /\ config_return' = loaded.value
        /\ config_cache' = loaded.cache
  /\ config_op' = [op |-> "load", config_name |-> config_name]
  /\ UNCHANGED <<disk, clock>>
  /\ UNCHANGED exceptConfig

\* manager.mpl2_merge_configurations(*config_names)
Merge(config_names) ==
  /\ LET merged == MergeFrom(EmptyDict, config_cache, disk, config_names)
     IN /\ config_return' = merged.value
        /\ config_cache' = merged.cache
  /\ config_op' = [op |-> "merge", config_names |-> config_names]
  /\ UNCHANGED <<disk, clock>>
  /\ UNCHANGED exceptConfig

NextConfig ==
  \/ \E config_name \in ConfigNames, config_data \in ConfigData :
       SaveJson(config_name, config_data)
  \/ \E config_name \in ConfigNames : LoadJson(config_name)
  \/ \E config_names \in NameLists : Merge(config_names)

SpecConfig == InitConfig /\ [][NextConfig]_vars

(***************************************************************************)
(* CCContentProcessor.validate_cc_compliance                               *)
(***************************************************************************)
\* self.cc_metadata, in insertion order
cc_metadata ==
  << [key |-> <<"c","c","_","b","y","_","4","_","0">>,
      value |-> [commercial_use |-> TRUE, derivative_works |-> TRUE,
                 share_alike |-> FALSE, attribution_required |-> TRUE]],
     [key |-> <<"c","c","_","b","y","_","s","a","_","4","_","0">>,
      value |-> [commercial_use |-> TRUE, derivative_works |-> TRUE,
                 share_alike |-> TRUE, attribution_required |-> TRUE]],
     [key |-> <<"c","c","_","b","y","_","n","c","_","4","_","0">>,
      value |-> [commercial_use |-> FALSE, derivative_works |-> TRUE,
                 share_alike |-> FALSE, attribution_required |-> TRUE]] >>

\* process_cc_by_content
process_cc_by_content ==
  [license_type |-> <<"C","C"," ","B","Y"," ","4",".","0">>,
   attribution |-> "Creative Commons Contributors",
   license_url |-> "http://creativecommons.org/licenses/by/4.0/",
   commercial_use |-> TRUE, derivative_works |-> TRUE, share_alike |-> FALSE]

\* process_cc_by_sa_content
process_cc_by_sa_content ==
  [license_type |-> <<"C","C"," ","B","Y","-","S","A"," ","4",".","0">>,
   attribution |-> "CC Wiki Community",
   license_url |-> "http://creativecommons.org/licenses/by-sa/4.0/",
   commercial_use |-> TRUE, derivative_works |-> TRUE, share_alike |-> TRUE]

\* process_cc_by_nc_content
process_cc_by_nc_content ==
  [license_type |-> <<"C","C"," ","B","Y","-","N","C"," ","4",".","0">>,
   attribution |-> "CC Research Community",
   license_url |-> "http://creativecommons.org/licenses/by-nc/4.0/",
   commercial_use |-> FALSE, derivative_works |-> TRUE, share_alike |-> FALSE]

\* the content arguments: what the three process_ methods return, and
\* contents built by hand whose license_type is written like a metadata key
Contents ==
  {process_cc_by_content, process_cc_by_sa_content, process_cc_by_nc_content,
   [process_cc_by_nc_content EXCEPT
      !.license_type = <<"C","C"," ","B","Y"," ","N","C"," ","4"," ","0">>],
   [process_cc_by_sa_content EXCEPT
      !.license_type = <<"c","c","_","b","y","-","s","a","_","4","_","0">>,
      !.attribution = ""]}

\* the usage_context arguments: any of the three keys, each True or False
ContextKeys == {"commercial_use", "creating_derivative", "same_license"}
UsageContexts == UNION {[keys -> BOOLEAN] : keys \in SUBSET ContextKeys}

\* str.replace(old, new) for one-character strings
Replace(s, old, new) == [i \in DOMAIN s |-> IF s[i] = old THEN new ELSE s[i]] \o <<>>

\* content.license_type.lower().replace(' ', '_').replace('-', '_')
MetadataKey(license_type) ==
  Replace(Replace(Lower(license_type), " ", "_"), "-", "_")

\* self.cc_metadata.get(key, {})
LicenseInfo(key) ==
  IF \E i \in DOMAIN cc_metadata : cc_metadata[i].key = key
    THEN cc_metadata[CHOOSE i \in DOMAIN cc_metadata : cc_metadata[i].key = key]
           .value
    ELSE <<>>

\* d.get(key, default)
DictGet(d, key, default) == IF key \in DOMAIN d THEN d[key] ELSE default

\* validate_cc_compliance
validate_cc_compliance(content, context) ==
  LET license_info == LicenseInfo(MetadataKey(content.license_type))
      attribution_provided == content.attribution # ""
      license_specified == content.license_type # <<>>
      license_url_provided == content.license_url # ""
      commercial_use_compliant ==
        IF ~DictGet(license_info, "commercial_use", TRUE)
          THEN ~DictGet(context, "commercial_use", FALSE)
          ELSE TRUE
      share_alike_compliant ==
        IF DictGet(license_info, "share_alike", FALSE)
          THEN IF DictGet(context, "creating_derivative", FALSE)
                 THEN DictGet(context, "same_license", FALSE)
                 ELSE TRUE
          ELSE TRUE
  IN [attribution_provided |-> attribution_provided,
      license_specified |-> license_specified,
      license_url_provided |-> license_url_provided,
      commercial_use_compliant |-> commercial_use_compliant,
      share_alike_compliant |-> share_alike_compliant,
      overall_compliant |->
        /\ attribution_provided
        /\ license_specified
        /\ license_url_provided
        /\ commercial_use_compliant
        /\ share_alike_compliant]

InitCompliance ==
  /\ MainIdle
  /\ ScanIdle
  /\ ConnIdle
  /\ DownloadIdle
  /\ ClusterIdle
  /\ ConfigIdle
  /\ CryptIdle
  /\ cc_content \in Contents
  /\ usage_context \in UsageContexts
  /\ compliance = NoValue
  /\ vpc = "call"

\* compliance = processor.validate_cc_compliance(content, usage_context)
Validate ==
  /\ vpc = "call"
  /\ compliance' = validate_cc_compliance(cc_content, usage_context)
  /\ vpc' = "returned"
  /\ UNCHANGED <<cc_content, usage_context>>
  /\ UNCHANGED exceptCompliance

NextCompliance == Validate

SpecCompliance == InitCompliance /\ [][NextCompliance]_vars

(***************************************************************************)
(* ProprietaryEncryptionEngine.proprietary_encrypt / proprietary_decrypt   *)
(***************************************************************************)
\* longest data argument
MaxData == 2

\* self.license_key of an engine made with the default argument
license_key == "DEMO-LICENSE"

\* the key arguments: the default None, the license key itself, another key
CryptKeys == {"", "DEMO-LICENSE", "k"}

\* if not key: key = self.license_key
EffectiveKey(key) == IF key = "" THEN license_key ELSE key

\* hashlib.sha256(f"{key}:{self.encryption_salt}".encode()).hexdigest(), as
\* the code points of its 64 characters
\* DEMO-LICENSE: a5078ec5420c33c2601cb8a2e60632992ae68c3f89be0ed265d008483fbff9e8
\* k:            d5a625125bd0833d468d9c69cac4d1037d28906e03d9f32c4e42ce4fd1822b56
KeyHash(key) ==
  IF key = "DEMO-LICENSE"
    THEN <<97, 53, 48, 55, 56, 101, 99, 53, 52, 50, 48, 99, 51, 51, 99, 50,
         54, 48, 49, 99, 98, 56, 97, 50, 101, 54, 48, 54, 51, 50, 57, 57,
         50, 97, 101, 54, 56, 99, 51, 102, 56, 57, 98, 101, 48, 101, 100, 50,
         54, 53, 100, 48, 48, 56, 52, 56, 51, 102, 98, 102, 102, 57, 101, 56>>
    ELSE <<100, 53, 97, 54, 50, 53, 49, 50, 53, 98, 100, 48, 56, 51, 51, 100,
         52, 54, 56, 100, 57, 99, 54, 57, 99, 97, 99, 52, 100, 49, 48, 51,
         55, 100, 50, 56, 57, 48, 54, 101, 48, 51, 100, 57, 102, 51, 50, 99,
         52, 101, 52, 50, 99, 101, 52, 102, 100, 49, 56, 50, 50, 98, 53, 54>>

\* the code points a character of data can have
CodePoints == {0, 65, 200, 255, 256, 8364}

RECURSIVE StringsOf(_)
\* the strings of exactly n characters
StringsOf(n) ==
  IF n = 0 THEN {<<>>}
  ELSE {Append(s, c) : s \in StringsOf(n - 1), c \in CodePoints}

\* the data arguments
DataStrings == UNION {StringsOf(n) : n \in 0..MaxData}

\* key_hash[i % len(key_hash)] for the 0-based index i
KeyChar(key_hash, i) == key_hash[(i % Len(key_hash)) + 1]

\* the cipher loop of proprietary_encrypt
Encipher(chars, key_hash) ==
  [i \in DOMAIN chars |-> (chars[i] + KeyChar(key_hash, i - 1)) % 256] \o <<>>

\* the decipher loop of proprietary_decrypt
Decipher(chars, key_hash) ==
  [i \in DOMAIN chars |-> (chars[i] - KeyChar(key_hash, i - 1)) % 256] \o <<>>

\* the padding character '=' among the 64 base64 digits 0..63
Pad == 64

RECURSIVE b64encode(_)
\* base64.b64encode of a byte string, as base64 digits
b64encode(bytes) ==
  IF Len(bytes) = 0 THEN <<>>
  ELSE IF Len(bytes) = 1
    THEN <<bytes[1] \div 4, (bytes[1] % 4) * 16, Pad, Pad>>
  ELSE IF Len(bytes) = 2
    THEN <<bytes[1] \div 4, (bytes[1] % 4) * 16 + bytes[2] \div 16,
           (bytes[2] % 16) * 4, Pad>>
  ELSE <<bytes[1] \div 4, (bytes[1] % 4) * 16 + bytes[2] \div 16,
         (bytes[2] % 16) * 4 + bytes[3] \div 64, bytes[3] % 64>>
         \o b64encode(SubSeq(bytes, 4, Len(bytes)))

RECURSIVE b64decode(_)
\* base64.b64decode of correctly padded base64 digits
b64decode(digits) ==
  IF Len(digits) = 0 THEN <<>>
  ELSE LET first == digits[1] * 4 + digits[2] \div 16
           second == (digits[2] % 16) * 16 + digits[3] \div 4
           third == (digits[3] % 4) * 64 + digits[4]
       IN IF digits[3] = Pad THEN <<first>>
          ELSE IF digits[4] = Pad THEN <<first, second>>
          ELSE <<first, second, third>> \o b64decode(SubSeq(digits, 5, Len(digits)))

\* proprietary_encrypt(data, key)
proprietary_encrypt(chars, key) ==
  b64encode(Encipher(chars, KeyHash(EffectiveKey(key))))

\* the except clause of proprietary_decrypt
DecryptionError == <<"DECRYPTION_ERROR: Invalid license or corrupted data">>

\* proprietary_decrypt(encrypted_data, key)
proprietary_decrypt(digits, key) ==
  IF Len(digits) % 4 # 0 THEN DecryptionError
  ELSE Decipher(b64decode(digits), KeyHash(EffectiveKey(key)))

InitCrypt ==
  /\ MainIdle
  /\ ScanIdle
  /\ ConnIdle
  /\ DownloadIdle
  /\ ClusterIdle
  /\ ConfigIdle
  /\ ComplianceIdle
  /\ plain_data \in DataStrings
  /\ crypt_key \in CryptKeys
  /\ encrypted_data = <<>>
  /\ decrypted_data = <<>>
  /\ epc = "encrypt"

\* encrypted = engine.proprietary_encrypt(data, key)
Encrypt ==
  /\ epc = "encrypt"
  /\ encrypted_data' = proprietary_encrypt(plain_data, crypt_key)
  /\ epc' = "decrypt"
  /\ UNCHANGED <<plain_data, crypt_key, decrypted_data>>
  /\ UNCHANGED exceptCrypt

\* decrypted = engine.proprietary_decrypt(encrypted, key)
Decrypt ==
  /\ epc = "decrypt"
  /\ decrypted_data' = proprietary_decrypt(encrypted_data, crypt_key)
  /\ epc' = "done"
  /\ UNCHANGED <<plain_data, crypt_key, encrypted_data>>
  /\ UNCHANGED exceptCrypt

NextCrypt ==
  \/ Encrypt
  \/ Decrypt

SpecCrypt == InitCrypt /\ [][NextCrypt]_vars

(***************************************************************************)
(* Properties                                                              *)
(***************************************************************************)
\* a Python name is bound
IsDefined(v) == "defined" \notin DOMAIN v

\* the scan loop is running, or has run, in the current process
ScanStarted == pc # "main" /\ IsDefined(test_results)

\* run_license_detection_tests has returned to main
ScanReturned == ScanStarted /\ IsDefined(test_results.summary)

\* the per-module records stored so far
Details == [i \in DOMAIN test_results.test_details |->
              test_results.test_details[i].value]

\* number of stored modules whose errors list is non-empty
Failures == Cardinality({i \in DOMAIN Details : Details[i].errors # <<>>})

\* the elements of license_types_found, set or list
FoundElems ==
  IF test_results.license_types_found.type = "set"
    THEN test_results.license_types_found.elems
    ELSE Range(test_results.license_types_found.elems)

\* union of the expected_licenses of all registry entries
ExpectedUnion ==
  UNION {Range(discover_license_test_modules[i].expected_licenses) :
           i \in DOMAIN discover_license_test_modules}

\* the errors list the claim C1 prescribes for a module whose import raises
ImportErrorsOf(module_path) ==
  CASE environment[module_path] = "missing_dependency" ->
         <<"Import error: " \o
             ExceptionMessage("ModuleNotFoundError", module_path)>>
    [] environment[module_path] = "broken_source" ->
         <<"General error: " \o ExceptionMessage("SyntaxError", module_path)>>

ImportRaises(module_path) ==
  environment[module_path] \in {"missing_dependency", "broken_source"}

\* C1: whatever the import of a registry entry raises, the exception stays in
\* the scan loop: the entry's errors list holds exactly the one string made
\* of the clause's prefix and the message, the entry is stored like any other,
\* and the process only ends after all registry entries have been stored.
C1_ExceptionsStayInLoop ==
  /\ ScanStarted =>
       /\ \A i \in DOMAIN Details :
            /\ Details[i].module_path = discover_license_test_modules[i].module
            /\ ImportRaises(Details[i].module_path) =>
                 Details[i].errors = ImportErrorsOf(Details[i].module_path)
       /\ pc = "record" /\ ImportRaises(test_result.module_path) =>
            test_result.errors = ImportErrorsOf(test_result.module_path)
       /\ pc \in {"loop", "record"} => Len(Details) = iter - 1
  /\ pc = "exit" =>
       ScanStarted /\ Len(Details) = Len(discover_license_test_modules)

\* a run in which an import raised and the entries after it were still scanned
C1_Witness ==
  /\ ScanReturned
  /\ \E i \in DOMAIN Details :
       /\ ImportRaises(Details[i].module_path)
       /\ Len(Details[i].errors) = 1
       /\ i < Len(Details)
       /\ Details[i + 1].load_successful

\* C2: once run_license_detection_tests has returned, total_modules,
\* modules_tested and the number of entries of test_details all equal the
\* number of registry entries.
C2_CountsEqualRegistrySize ==
  ScanReturned =>
    /\ test_results.total_modules = Len(discover_license_test_modules)
    /\ test_results.modules_tested = Len(discover_license_test_modules)
    /\ Len(test_results.test_details) = Len(discover_license_test_modules)
    /\ \A i, j \in DOMAIN test_results.test_details :
         test_results.test_details[i].key = test_results.test_details[j].key
           => i = j

\* a returned scan in which some module failed to load
C2_Witness ==
  /\ ScanReturned
  /\ test_results.modules_loaded < test_results.total_modules

\* C3 (as claimed): on return modules_tested = modules_loaded + failures, also
\* when the failure happens after the import succeeded.
C3_TestedIsLoadedPlusFailures ==
  ScanReturned =>
    test_results.modules_tested = test_results.modules_loaded + Failures

\* C4: modules_loaded <= modules_tested at the loop head after every completed
\* iteration and in the returned result.
C4_LoadedAtMostTested ==
  (ScanStarted /\ (pc = "loop" \/ ScanReturned)) =>
    test_results.modules_loaded <= test_results.modules_tested

\* completed iterations with both loaded and failed modules behind them
C4_Witness ==
  /\ ScanStarted
  /\ pc = "loop"
  /\ test_results.modules_loaded > 0
  /\ test_results.modules_loaded < test_results.modules_tested

\* C5: in every state of a run license_types_found, as a set and later as a
\* list, holds only identifiers from the union of the registry's
\* expected_licenses.
C5_FoundWithinExpected ==
  ScanStarted => FoundElems \subseteq ExpectedUnion

\* license_types_found is non-empty and smaller than the union
C5_Witness ==
  /\ ScanReturned
  /\ FoundElems # {}
  /\ FoundElems # ExpectedUnion

\* C6 (as claimed): main runs scan, summary, report and both writes and then
\* ends with exit status 0.
C6_MainExitsZero ==
  pc = "exit" =>
    /\ written = <<results_file, report_file>>
    /\ exit_status = 0

\* C7 (as claimed): a run that finds the output files of an earlier run with
\* the same import outcomes rewrites each with identical content.
C7_RerunRewritesIdentically ==
  [][/\ (pc = "save_results" /\ files[results_file].exists)
          => files'[results_file] = files[results_file]
     /\ (pc = "save_report" /\ files[report_file].exists)
          => files'[report_file] = files[report_file]]_vars

\* C8: the results file is written first, after scan and summary, holding
\* test_results with license_types_found as a list; the report file second;
\* each write replaces what the file held; both are written when the process
\* ends.
C8_BothFilesWrittenInOrder ==
  /\ written \in {<<>>, <<results_file>>, <<results_file, report_file>>}
  /\ pc = "exit" => written = <<results_file, report_file>>
  /\ Len(written) >= 1 =>
       /\ ScanReturned
       /\ test_results.modules_tested = test_results.total_modules
       /\ test_results.license_types_found.type = "list"
       /\ files[results_file] =
            Holding([test_results EXCEPT
                       !.license_types_found =
                          test_results.license_types_found.elems])
       /\ Range(files[results_file].data.license_types_found) = FoundElems
  /\ Len(written) >= 2 => files[report_file] = Holding(generate_license_report)

\* a second run has ended, having rewritten the files the first run left
C8_Witness ==
  /\ run = 2
  /\ pc = "exit"
  /\ written = <<results_file, report_file>>
  /\ Len(files[results_file].data.license_types_found) > 1

\* the lower-cased indicator occurs in the lower-cased text
OccursIn(indicator, txt) ==
  \E a \in 1..(Len(txt) - Len(indicator) + 1) :
     SubSeq(Lower(txt), a, a + Len(indicator) - 1) = Lower(indicator)

\* position of an indicator in license_indicators
IndicatorIndex(indicator) ==
  CHOOSE i \in DOMAIN license_indicators : license_indicators[i] = indicator

ExampleText ==
  Fragments[1] \o Fragments[2] \o Fragments[3]

\* C9: analyze_license_patterns(text) returns exactly the indicators whose
\* lower-cased form occurs in the lower-cased text, each once, in the order
\* of the indicator list; for the Apache example text the result contains
\* 'Apache License' and 'Licensed under'.
C9_AnalyzeReturnsMatchingIndicators ==
  apc = "returned" =>
    /\ \A k \in DOMAIN found_patterns :
         /\ found_patterns[k] \in Range(license_indicators)
         /\ OccursIn(found_patterns[k], text)
    /\ \A i \in DOMAIN license_indicators :
         OccursIn(license_indicators[i], text)
           => license_indicators[i] \in Range(found_patterns)
    /\ \A k, l \in DOMAIN found_patterns :
         k < l => IndicatorIndex(found_patterns[k])
                    < IndicatorIndex(found_patterns[l])
    /\ text = ExampleText =>
         /\ license_indicators[2] \in Range(found_patterns)
         /\ license_indicators[29] \in Range(found_patterns)

\* the call on the Apache example text has returned
C9_Witness ==
  /\ apc = "returned"
  /\ text = ExampleText
  /\ Len(found_patterns) >= 2

\* C10 (as claimed): the registry has 16 entries and every run reports
\* total_modules = 16 and modules_tested = 16.
C10_RegistryHasSixteen ==
  ScanReturned =>
    /\ Len(discover_license_test_modules) = 16
    /\ test_results.total_modules = 16
    /\ test_results.modules_tested = 16

\* C10 (amended): the registry has 17 entries with distinct names and every
\* run reports total_modules = 17 and modules_tested = 17.
C10_RegistryHasSeventeen ==
  /\ Len(discover_license_test_modules) = 17
  /\ Cardinality({discover_license_test_modules[i].name :
                    i \in DOMAIN discover_license_test_modules}) = 17
  /\ ScanReturned =>
       /\ test_results.total_modules = 17
       /\ test_results.modules_tested = 17

\* a run has returned its result and reached the end of main
C10_Witness ==
  /\ ScanReturned
  /\ pc = "return"
  /\ test_results.modules_tested = 17

\* every registry module imports successfully
AllImportsSucceed == \A m \in ModulePaths : ~ImportRaises(m)

\* C11: on return module_load_success_rate is modules_loaded / total_modules
\* * 100; it is exactly 100 with modules_loaded = total_modules when every
\* module imports, and strictly below 100 when some import raises.
C11_SuccessRateOfLoads ==
  ScanReturned =>
    LET rate == test_results.summary.module_load_success_rate
    IN /\ rate.den > 0
       /\ rate.num * test_results.total_modules
            = test_results.modules_loaded * 100 * rate.den
       /\ AllImportsSucceed =>
            /\ test_results.modules_loaded = test_results.total_modules
            /\ rate = [num |-> 100, den |-> 1]
       /\ ~AllImportsSucceed => rate.num < 100 * rate.den

\* a returned scan in which some imports raised and some succeeded
C11_Witness ==
  /\ ScanReturned
  /\ ~AllImportsSucceed
  /\ test_results.modules_loaded > 0
  /\ test_results.summary.module_load_success_rate.num > 0

\* C12: for each of the five categories found is the number of the category's
\* identifiers that are in license_types_found, total the size of the
\* category's list and percentage found / total * 100, within 0..total and
\* 0..100; total_unique_licenses is the number of distinct identifiers found.
C12_CategoryCounts ==
  ScanReturned =>
    /\ Len(test_results.summary.license_categories) = 5
    /\ \A c \in DOMAIN license_categories :
         LET stats == test_results.summary.license_categories[c]
             members == Range(license_categories[c].licenses)
         IN /\ stats.category = license_categories[c].category
            /\ stats.found = Cardinality(members \cap FoundElems)
            /\ stats.total = Cardinality(members)
            /\ 0 <= stats.found /\ stats.found <= stats.total
            /\ stats.percentage.num * stats.total
                 = stats.found * 100 * stats.percentage.den
            /\ 0 <= stats.percentage.num
            /\ stats.percentage.num <= 100 * stats.percentage.den
    /\ test_results.summary.total_unique_licenses = Cardinality(FoundElems)

\* a returned scan with a category found partly and a category found fully
C12_Witness ==
  /\ ScanReturned
  /\ \E c \in DOMAIN license_categories :
       LET stats == test_results.summary.license_categories[c]
       IN 0 < stats.found /\ stats.found < stats.total
  /\ \E c \in DOMAIN license_categories :
       LET stats == test_results.summary.license_categories[c]
       IN stats.found = stats.total

\* C13: the summary step changes nothing of test_results but the summary
\* entry its caller stores, and the summary is the value of
\* generate_test_summary on the test_results it was given, whatever the
\* iteration order of the set.
C13_SummaryIsPure ==
  [][(pc = "loop" /\ pc' = "display") =>
       /\ test_results' =
            [test_results EXCEPT !.summary = test_results'.summary]
       /\ \A seed \in 1..NumHashSeeds :
            test_results'.summary = generate_test_summary(test_results, seed)]_vars

\* the summary has been computed from a set of several identifiers
C13_Witness ==
  /\ ScanReturned
  /\ pc = "display"
  /\ test_results.license_types_found.type = "set"
  /\ Cardinality(test_results.license_types_found.elems) > 1

\* C14: the report string main holds and the content written to the report
\* file are the same in every run, whatever the imports did; a later run
\* rewrites the file with the content it had.
C14_ReportIndependentOfScan ==
  /\ pc \in {"save_results", "save_report", "return"} =>
       report = generate_license_report
  /\ files[report_file].exists =>
       files[report_file] = Holding(generate_license_report)

\* the report file has been written by a run in which a module failed
C14_Witness ==
  /\ pc = "return"
  /\ files[report_file].exists
  /\ Failures > 0

\* union of the expected_licenses of the stored modules with load_successful
LoadedUnion ==
  UNION {Range(Details[i].expected_licenses) :
           i \in {k \in DOMAIN Details : Details[k].load_successful}}

\* C16 (as claimed): on return license_types_found is exactly the union of
\* the expected_licenses of the modules whose load_successful is true.
C16_FoundIsUnionOfLoaded ==
  ScanReturned => FoundElems = LoadedUnion

\* C17 (as claimed): on return every entry of test_details has
\* load_successful true iff errors is empty, at most one error, and no
\* patterns when load_successful is false.
C17_DetailsConsistent ==
  ScanReturned =>
    \A i \in DOMAIN Details :
       /\ Details[i].load_successful <=> (Details[i].errors = <<>>)
       /\ Len(Details[i].errors) <= 1
       /\ ~Details[i].load_successful =>
            Details[i].license_patterns_found = <<>>

\* C18 (as claimed): test_coverage.copyleft_licenses is true exactly when the
\* four copyleft identifiers are all in license_types_found.
C18_CopyleftCoverage ==
  ScanReturned =>
    (test_results.summary.test_coverage.copyleft_licenses
       <=> {"GPL-2.0", "GPL-3.0", "LGPL-2.1", "AGPL-3.0"} \subseteq FoundElems)

(***************************************************************************)
(* Claims about the library calls                                          *)
(***************************************************************************)
\* C19: gpl2_port_scan never has more than max_threads (50) started but
\* unjoined scan threads, has joined every thread it started when it
\* returns, and returns a dict with exactly one boolean entry for each
\* distinct port of its argument.
C19_ScanIsBoundedAndComplete ==
  /\ Cardinality(Unjoined) <= max_threads
  /\ spc = "returned" =>
       /\ Len(thread_state) = Len(ports)
       /\ Unjoined = {}
       /\ DOMAIN port_results = Range(ports)
       /\ \A p \in DOMAIN port_results : port_results[p] \in BOOLEAN

\* a scan of more ports than one batch has returned, with an open port found
C19_Witness ==
  /\ spc = "returned"
  /\ Len(ports) > max_threads
  /\ \E p \in DOMAIN port_results : port_results[p]

\* connection objects made for thread id tid
CreatedFor(tid) == {i \in DOMAIN created : created[i].thread_id = tid}

\* C20: under every interleaving of concurrent calls of agpl3_get_connection,
\* at most one connection is created per thread id, table setup runs once
\* for each created connection (never twice, and once by the time the
\* connection is stored), an entry of the connections map is never replaced
\* or removed, and all calls with the same thread id return the same
\* connection.
C20_ConnectionsAreThreadSafe ==
  /\ [](/\ \A i \in DOMAIN created :
             /\ Cardinality(CreatedFor(created[i].thread_id)) = 1
             /\ created[i].setups <= 1
        /\ \A tid \in DOMAIN connections :
             /\ connections[tid] \in CreatedFor(tid)
             /\ created[connections[tid]].setups = 1
        /\ \A r1, r2 \in returned :
             r1.thread_id = r2.thread_id => r1.conn = r2.conn)
  /\ [][\A tid \in DOMAIN connections :
          /\ tid \in DOMAIN connections'
          /\ connections'[tid] = connections[tid]]_vars

\* two different callers have been given the connection of one thread id,
\* and a second thread id has a connection of its own
C20_Witness ==
  /\ \E r1, r2 \in returned :
       r1.caller # r2.caller /\ r1.thread_id = r2.thread_id
  /\ Cardinality(DOMAIN connections) >= 2

\* C21: download_with_retries(url, retries = r) with r >= 0 calls
\* _perform_download at most r + 1 times, makes no attempt after the first
\* one that succeeds and returns that attempt's bytes, returns None exactly
\* when all r + 1 attempts raise, and lets no download exception escape.
C21_RetriesAreBounded ==
  retries >= 0 =>
    /\ Len(downloads) <= retries + 1
    /\ dpc # "raised"
    /\ \A i \in 1..Len(downloads) :
         downloads[i].kind = "bytes" =>
           /\ i = Len(downloads)
           /\ dpc = "returned"
           /\ download_result = downloads[i]
    /\ dpc = "returned" =>
         (download_result = ReturnNone
            <=> /\ Len(downloads) = retries + 1
                /\ \A i \in 1..Len(downloads) : downloads[i].kind = "raise")
    /\ (Len(downloads) = retries + 1 /\ downloads[retries + 1].kind = "raise")
         => dpc = "returned"

\* a download succeeded on its last permitted attempt after earlier failures
C21_Witness ==
  /\ retries >= 2
  /\ dpc = "returned"
  /\ Len(downloads) = retries + 1
  /\ download_result.kind = "bytes"

\* C22: epl2_clustering_analysis terminates normally for every non-empty
\* data_points and every k >= 1, also when k exceeds the number of points:
\* it makes at most 100 assignment passes, stops at the first pass that
\* repeats the previous assignments, and returns iterations between 1 and
\* 100 with each assignment indexing an existing centroid.
C22_ClusteringTerminatesNormally ==
  (data_points # <<>> /\ num_clusters >= 1) =>
    /\ kpc # "raised"
    /\ iteration < max_iterations
    /\ kpc = "returned" =>
         /\ cluster_result.iterations \in 1..max_iterations
         /\ \A i \in DOMAIN cluster_result.assignments :
              cluster_result.assignments[i] \in
                0..(Len(cluster_result.centroids) - 1)
         /\ cluster_result.iterations < max_iterations =>
              cluster_result.assignments =
                NewAssignments(data_points, cluster_result.centroids)

\* what a manager created now on the same directory returns for a name
FreshLoad(config_name) ==
  mpl2_load_json_config(EmptyDict, disk, config_name).value

\* C23: after any sequence of mpl2_save_json_config and
\* mpl2_load_json_config calls on one manager, mpl2_load_json_config(name)
\* returns what a freshly created manager on the same config directory
\* returns for that name.
C23_CacheCoherentWithFile ==
  (IsDefined(config_op) => config_op.op \in {"save", "load"}) =>
    \A config_name \in ConfigNames :
      mpl2_load_json_config(config_cache, disk, config_name).value
        = FreshLoad(config_name)

\* what mpl2_merge_configurations returns for one name on the current
\* directory
MergedAlone(config_name) ==
  MergeFrom(EmptyDict, config_cache, disk, <<config_name>>).value

\* C24: mpl2_merge_configurations tries the formats in priority order for
\* each name: the JSON config is used when a JSON file for the name exists
\* and loads; when no JSON file exists the XML config is used; when neither
\* exists the INI config is used; names given later override earlier ones.
C24_MergeFollowsPriority ==
  (IsDefined(config_op) /\ config_op.op = "merge") =>
    LET names == config_op.config_names
        first == names[1]
        json_config ==
          mpl2_load_json_config(config_cache, disk, first).value
    IN /\ Len(names) = 1 =>
            /\ (disk[<<first, "json">>].exists /\ ~Get(json_config, "error"))
                 => config_return = json_config
            /\ (/\ ~disk[<<first, "json">>].exists
                /\ disk[<<first, "xml">>].exists
                /\ ~Get(mpl2_load_xml_config(disk, first), "xml_error"))
                 => config_return = mpl2_load_xml_config(disk, first)
            /\ (/\ ~disk[<<first, "json">>].exists
                /\ ~disk[<<first, "xml">>].exists
                /\ ~Get(mpl2_parse_ini_config(disk, first), "ini_error"))
                 => config_return = mpl2_parse_ini_config(disk, first)
       /\ Len(names) = 2 =>
            config_return =
              _mpl2_deep_merge(MergedAlone(names[1]), MergedAlone(names[2]))

\* C25: validate_cc_compliance enforces the license's terms: for content
\* from process_cc_by_nc_content, commercial_use_compliant is false whenever
\* usage_context has commercial_use true; for content from
\* process_cc_by_sa_content, share_alike_compliant is false when
\* creating_derivative is true and same_license is false; overall_compliant
\* is the conjunction of all the other flags.
C25_ComplianceEnforcesTerms ==
  vpc = "returned" =>
    /\ (/\ cc_content = process_cc_by_nc_content
        /\ DictGet(usage_context, "commercial_use", FALSE))
         => ~compliance.commercial_use_compliant
    /\ (/\ cc_content = process_cc_by_sa_content
        /\ DictGet(usage_context, "creating_derivative", FALSE)
        /\ ~DictGet(usage_context, "same_license", FALSE))
         => ~compliance.share_alike_compliant
    /\ compliance.overall_compliant
         <=> /\ compliance.attribution_provided
             /\ compliance.license_specified
             /\ compliance.license_url_provided
             /\ compliance.commercial_use_compliant
             /\ compliance.share_alike_compliant

\* C26: proprietary_decrypt reverses proprietary_encrypt: for every string
\* data (any character code points) and every key,
\* proprietary_decrypt(proprietary_encrypt(data, key), key) == data on the
\* same engine, the per-character arithmetic being (ord + key_char) mod 256
\* on encryption and (ord - key_char) mod 256 on decryption.
C26_DecryptReversesEncrypt ==
  epc = "done" => decrypted_data = plain_data
====
